---- MODULE Spec2Model ----
(***************************************************************************)
(* Vertical Tabs extension: the tab mirror (TabEngine), the workspace      *)
(* manager (StateManager), the service worker that wires them to the host  *)
(* and to the UI channel, and the side panel's reconciler.                 *)
(*                                                                         *)
(* Handlers are written as operators from a world record to a world        *)
(* record, so that one host event can be run through every listener that   *)
(* is registered for it, in registration order, inside one atomic step.    *)
(***************************************************************************)
EXTENDS Integers, Sequences, FiniteSets, TLC

\* ------------------------------------------------------------------ bounds
MaxTab == 2
MaxWin == 2
MaxClock == 2
MaxTitle == 1
MaxFocusQueries == 1
MaxBurst == 2

\* --------------------------------------------------------- program values
NULL == 0                    \* null for activeTabId / activeWindowId / timers
UndefinedId == 0             \* tab.id === undefined, window.id === undefined
Undefined == -1              \* an absent optional number (lastActiveAt)
WINDOW_ID_NONE == -1
DEFAULT_SPACE_ID == "default"
ALL_TABS_ID == "all"
UndefinedSpace == "undefined"   \* an absent optional spaceId
PinLimit == 6

TabIds == 1..MaxTab
WinIds == 1..MaxWin
Indexes == 0..(MaxTab - 1)
Titles == 0..MaxTitle
Clock == 1..MaxClock

meaningfulChanges ==
    {"status", "title", "url", "favIconUrl", "pinned", "audible", "mutedInfo"}

\* change-info objects the host sends: one with an allow-listed key, one without
ChangeInfos == {{"title"}, {"groupId"}}

SpaceName(n) == "space_" \o ToString(n)

VARIABLES
    now,                    \* Date.now()
    host,                   \* the browser: windows, their tabs, focus, titles
    events,                 \* host notifications dispatched but not yet handled
    getAllResults,          \* chrome.windows.getAll results of the syncs in flight
    state,                  \* TabEngine.state
    updateDebounceTimers,   \* TabEngine.updateDebounceTimers: tab id -> timer handle
    timeouts,               \* the event loop's pending setTimeout callbacks
    serializedStateCache,   \* TabEngine.serializedStateCache
    cacheLastUpdated,       \* TabEngine.cacheLastUpdated
    spaces,                 \* StateManager.spaces
    tabMetadata,            \* StateManager.tabMetadata
    saveDebounceTimer,      \* StateManager.saveDebounceTimer is pending
    storage,                \* chrome.storage.local: spaces and tab metadata
    uiActiveSpaceId,        \* service worker: uiActiveSpaceId
    phase,                  \* position of the service worker's initialize()
    sent,                   \* messages broadcast by the last step, in order
    last,                   \* the last operation, its inputs and its result
    burst,                  \* per tab: the update notifications since the timer was idle
    mutatedSinceRead,       \* lastUpdated was written since getSerializedState returned
    rebuiltSinceRead,       \* the cache was rebuilt since getSerializedState returned
    focusQueries,           \* window ids of the focus listener's tab queries in flight
    pinRequests,            \* PIN_TAB requests between their host calls
    hostPinned,             \* host: the set of pinned tabs
    tabs,                   \* side panel: tabs
    activeTabId,            \* side panel: activeTabId
    received,               \* side panel: the messages its listener has handled
    isLoading,              \* side panel: isLoading
    panelStep,              \* side panel: position of the mount effect's initialize()
    startupPhase,           \* position of the initialize() the onStartup listener called
    startupListeners,       \* the listeners that invocation has registered
    requests,               \* handleMessage: the requests taken, their host call and responses
    loadResults             \* chrome.storage.local.get results of the load in flight

vars == <<now, host, events, getAllResults, state, updateDebounceTimers, timeouts,
          serializedStateCache, cacheLastUpdated, spaces, tabMetadata,
          saveDebounceTimer, storage, uiActiveSpaceId, phase, sent, last, burst,
          mutatedSinceRead, rebuiltSinceRead, focusQueries, pinRequests, hostPinned,
          tabs, activeTabId, received, isLoading, panelStep, startupPhase,
          startupListeners, requests, loadResults>>

\* ---------------------------------------------------------------- helpers
Min(a, b) == IF a < b THEN a ELSE b

Range(s) == {s[i] : i \in 1..Len(s)}

\* Array.prototype.filter(id => id !== x)
Without(s, x) == SelectSeq(s, LAMBDA y : y # x)

\* Array.prototype.splice(i, 0, x): a start beyond the length is clamped to it
Splice(s, i, x) ==
    LET k == Min(i, Len(s))
    IN  SubSeq(s, 1, k) \o <<x>> \o SubSeq(s, k + 1, Len(s))

\* Array.prototype.includes
Includes(s, x) == \E i \in 1..Len(s) : s[i] = x

\* A JavaScript Map keyed by id, kept as the sequence of its values in
\* insertion order: set() replaces in place or appends, delete() removes.
MapHas(m, k) == \E i \in 1..Len(m) : m[i].id = k
MapGet(m, k) == m[CHOOSE i \in 1..Len(m) : m[i].id = k]
MapSet(m, v) ==
    IF MapHas(m, v.id)
    THEN [i \in 1..Len(m) |-> IF m[i].id = v.id THEN v ELSE m[i]]
    ELSE Append(m, v)
MapDelete(m, k) == SelectSeq(m, LAMBDA r : r.id # k)
MapKeys(m) == {m[i].id : i \in 1..Len(m)}

\* Array.prototype.sort((a, b) => (a.index ?? 0) - (b.index ?? 0)): stable
RECURSIVE SortByIndex(_)
SortByIndex(s) ==
    IF Len(s) <= 1 THEN s
    ELSE LET rest == SortByIndex(SubSeq(s, 1, Len(s) - 1))
             x == s[Len(s)]
             k == Cardinality({i \in 1..Len(rest) : rest[i].index <= x.index})
         IN  SubSeq(rest, 1, k) \o <<x>> \o SubSeq(rest, k + 1, Len(rest))

\* ------------------------------------------------------------ the world
World ==
    [state |-> state,
     updateDebounceTimers |-> updateDebounceTimers,
     timeouts |-> timeouts,
     serializedStateCache |-> serializedStateCache,
     cacheLastUpdated |-> cacheLastUpdated,
     spaces |-> spaces,
     tabMetadata |-> tabMetadata,
     saveDebounceTimer |-> saveDebounceTimer,
     storage |-> storage,
     sent |-> <<>>,
     touched |-> FALSE,
     mutatedSinceRead |-> mutatedSinceRead,
     rebuiltSinceRead |-> rebuiltSinceRead]

Commit(w) ==
    /\ state' = w.state
    /\ updateDebounceTimers' = w.updateDebounceTimers
    /\ timeouts' = w.timeouts
    /\ serializedStateCache' = w.serializedStateCache
    /\ cacheLastUpdated' = w.cacheLastUpdated
    /\ spaces' = w.spaces
    /\ tabMetadata' = w.tabMetadata
    /\ saveDebounceTimer' = w.saveDebounceTimer
    /\ storage' = w.storage
    /\ sent' = w.sent
    /\ mutatedSinceRead' = w.mutatedSinceRead
    /\ rebuiltSinceRead' = w.rebuiltSinceRead

\* broadcastMessage: chrome.runtime.sendMessage to every extension context
broadcastMessage(w, message) == [w EXCEPT !.sent = Append(@, message)]

\* =====================================================================
\* StateManager (lib/storage.ts)
\* =====================================================================

DEFAULT_SPACE == [id |-> DEFAULT_SPACE_ID, tabIds |-> <<>>]

NoMetadata == [spaceId |-> UndefinedSpace, lastActiveAt |-> Undefined]

\* this.tabMetadata[tabId], with an absent entry read as an object without keys
MetadataOf(meta, tabId) == IF tabId \in DOMAIN meta THEN meta[tabId] ELSE NoMetadata

\* tabMetadata[tabId] = value
MetadataPut(meta, tabId, value) ==
    [t \in DOMAIN meta \cup {tabId} |-> IF t = tabId THEN value ELSE meta[t]]

\* delete tabMetadata[tabId]
MetadataDelete(meta, tabId) == [t \in DOMAIN meta \ {tabId} |-> meta[t]]

\* { ...target, ...data }: the keys data carries win
Spread(target, data) ==
    [k \in DOMAIN target |-> IF k \in DOMAIN data THEN data[k] ELSE target[k]]

\* spaces.find(s => s.id === id): the position of the first match, 0 for none
FindSpace(sp, id) ==
    IF \E i \in 1..Len(sp) : sp[i].id = id
    THEN CHOOSE i \in 1..Len(sp) : sp[i].id = id /\ \A j \in 1..(i - 1) : sp[j].id # id
    ELSE 0

\* the numeric keys of an object in enumeration order (ascending)
RECURSIVE Ascending(_)
Ascending(S) ==
    IF S = {} THEN <<>>
    ELSE LET m == CHOOSE x \in S : \A y \in S : x <= y
         IN  <<m>> \o Ascending(S \ {m})

\* for (x of xs) if (!list.includes(x)) list.push(x)
RECURSIVE PushAbsent(_, _)
PushAbsent(list, xs) ==
    IF xs = <<>> THEN list
    ELSE PushAbsent(IF Includes(list, Head(xs)) THEN list ELSE Append(list, Head(xs)),
                    Tail(xs))

\* savePersistedState({ spaces, settings, tabMetadata })
savePersistedState(w) ==
    [w EXCEPT !.storage = [spaces |-> w.spaces, tabMetadata |-> w.tabMetadata]]

\* an immediate save that cancels the timer and writes nothing
scheduleSave_CancelOnly(w, immediate) ==
    IF immediate
    THEN [w EXCEPT !.saveDebounceTimer = FALSE]
    ELSE [w EXCEPT !.saveDebounceTimer = TRUE]

\* scheduleSave: the pending timer is cleared; an immediate save writes the full
\* state, a debounced one arms the timer
scheduleSave(w, immediate) ==
    IF immediate
    THEN savePersistedState([w EXCEPT !.saveDebounceTimer = FALSE])
    ELSE [w EXCEPT !.saveDebounceTimer = TRUE]

\* The service worker's subscriber, once registered, broadcasts SPACES_UPDATED.
notifyListeners(w) ==
    IF phase = "ready"
    THEN broadcastMessage(w, [type |-> "SPACES_UPDATED", spaces |-> w.spaces])
    ELSE w

setTabMetadata(w, tabId, data) ==
    scheduleSave(
        [w EXCEPT !.tabMetadata =
            MetadataPut(@, tabId, Spread(MetadataOf(@, tabId), data))],
        FALSE)

\* addSpace: returns the new space in .ret
addSpace(w) ==
    LET space == [id |-> SpaceName(now), tabIds |-> <<>>]
        w1 == [w EXCEPT !.spaces = Append(@, space)]
    IN  [w |-> notifyListeners(scheduleSave(w1, TRUE)), ret |-> space]

\* removeSpace without its first statement (the default space is not refused)
removeSpace_AnyId(w, spaceId) ==
    LET d == FindSpace(w.spaces, DEFAULT_SPACE_ID)
        r == FindSpace(w.spaces, spaceId)
    IN  IF r = 0 \/ d = 0 THEN [w |-> w, ret |-> <<>>]
        ELSE
        LET members == w.spaces[r].tabIds
            \* first loop: the members of the removed space
            meta1 == [t \in DOMAIN w.tabMetadata \cup Range(members) |->
                        IF t \in Range(members)
                        THEN Spread(MetadataOf(w.tabMetadata, t),
                                    [spaceId |-> DEFAULT_SPACE_ID])
                        ELSE w.tabMetadata[t]]
            \* second loop: metadata that still names the removed space
            extra == Ascending({t \in DOMAIN meta1 : meta1[t].spaceId = spaceId})
            meta2 == [t \in DOMAIN meta1 |->
                        IF meta1[t].spaceId = spaceId
                        THEN [meta1[t] EXCEPT !.spaceId = DEFAULT_SPACE_ID]
                        ELSE meta1[t]]
            defaultTabIds == PushAbsent(PushAbsent(w.spaces[d].tabIds, members), extra)
            kept == [i \in 1..Len(w.spaces) |->
                        IF i = d THEN [w.spaces[i] EXCEPT !.tabIds = defaultTabIds]
                        ELSE w.spaces[i]]
            w1 == [w EXCEPT !.spaces = SelectSeq(kept, LAMBDA s : s.id # spaceId),
                            !.tabMetadata = meta2]
        IN  [w |-> notifyListeners(scheduleSave(w1, TRUE)),
             ret |-> PushAbsent(PushAbsent(<<>>, members), extra)]

\* removeSpace: returns the moved tab ids in .ret
removeSpace(w, spaceId) ==
    LET d == FindSpace(w.spaces, DEFAULT_SPACE_ID)
        r == FindSpace(w.spaces, spaceId)
    IN  IF spaceId = DEFAULT_SPACE_ID THEN [w |-> w, ret |-> <<>>]
        ELSE IF r = 0 \/ d = 0 THEN [w |-> w, ret |-> <<>>]
        ELSE
        LET members == w.spaces[r].tabIds
            \* first loop: the members of the removed space
            meta1 == [t \in DOMAIN w.tabMetadata \cup Range(members) |->
                        IF t \in Range(members)
                        THEN Spread(MetadataOf(w.tabMetadata, t),
                                    [spaceId |-> DEFAULT_SPACE_ID])
                        ELSE w.tabMetadata[t]]
            \* second loop: metadata that still names the removed space
            extra == Ascending({t \in DOMAIN meta1 : meta1[t].spaceId = spaceId})
            meta2 == [t \in DOMAIN meta1 |->
                        IF meta1[t].spaceId = spaceId
                        THEN [meta1[t] EXCEPT !.spaceId = DEFAULT_SPACE_ID]
                        ELSE meta1[t]]
            defaultTabIds == PushAbsent(PushAbsent(w.spaces[d].tabIds, members), extra)
            kept == [i \in 1..Len(w.spaces) |->
                        IF i = d THEN [w.spaces[i] EXCEPT !.tabIds = defaultTabIds]
                        ELSE w.spaces[i]]
            w1 == [w EXCEPT !.spaces = SelectSeq(kept, LAMBDA s : s.id # spaceId),
                            !.tabMetadata = meta2]
        IN  [w |-> notifyListeners(scheduleSave(w1, TRUE)),
             ret |-> PushAbsent(PushAbsent(<<>>, members), extra)]

\* assignTabToSpace: returns the space id actually used in .ret
assignTabToSpace(w, tabId, spaceId) ==
    LET previousSpaceId ==
            IF MetadataOf(w.tabMetadata, tabId).spaceId # UndefinedSpace
            THEN MetadataOf(w.tabMetadata, tabId).spaceId ELSE DEFAULT_SPACE_ID
    IN  IF previousSpaceId = spaceId THEN [w |-> w, ret |-> previousSpaceId]
        ELSE
        LET p == FindSpace(w.spaces, previousSpaceId)
            sp1 == IF p # 0
                   THEN [w.spaces EXCEPT ![p].tabIds = Without(@, tabId)]
                   ELSE w.spaces
            n == IF FindSpace(sp1, spaceId) # 0 THEN FindSpace(sp1, spaceId)
                 ELSE FindSpace(sp1, DEFAULT_SPACE_ID)
            targetSpaceId == IF n # 0 THEN sp1[n].id ELSE DEFAULT_SPACE_ID
            sp2 == IF n # 0 /\ ~Includes(sp1[n].tabIds, tabId)
                   THEN [sp1 EXCEPT ![n].tabIds = Append(@, tabId)]
                   ELSE sp1
            w1 == [w EXCEPT !.spaces = sp2,
                            !.tabMetadata =
                                MetadataPut(@, tabId,
                                    Spread(MetadataOf(@, tabId),
                                           [spaceId |-> targetSpaceId]))]
        IN  [w |-> notifyListeners(scheduleSave(w1, TRUE)), ret |-> targetSpaceId]

removeTabMetadata(w, tabId) ==
    scheduleSave(
        [w EXCEPT !.tabMetadata = MetadataDelete(@, tabId),
                  !.spaces = [i \in 1..Len(@) |->
                                [@[i] EXCEPT !.tabIds = Without(@, tabId)]]],
        FALSE)

\* =====================================================================
\* TabEngine (lib/tab-engine.ts)
\* =====================================================================

\* this.state.lastUpdated = Date.now()
Touch(w) ==
    [w EXCEPT !.state.lastUpdated = now, !.touched = TRUE, !.mutatedSinceRead = TRUE]

\* The serialized view: Array.from(map.values()) of both maps plus the scalars.
Serialize(st) ==
    [tabs |-> st.tabs, windows |-> st.windows, activeTabId |-> st.activeTabId,
     activeWindowId |-> st.activeWindowId, lastUpdated |-> st.lastUpdated]

\* The cache is <<>> for null and <<view>> for a built view.
getSerializedState(w) ==
    IF w.serializedStateCache # <<>> /\ w.cacheLastUpdated = w.state.lastUpdated
    THEN w
    ELSE [w EXCEPT !.serializedStateCache = <<Serialize(w.state)>>,
                   !.cacheLastUpdated = w.state.lastUpdated,
                   !.rebuiltSinceRead = TRUE]

invalidateCache(w) == [w EXCEPT !.serializedStateCache = <<>>]

notifySubscribers_KeepCache(w) == getSerializedState(w)

\* No caller registers a subscriber, so the callback loop has nothing to call.
notifySubscribers(w) == getSerializedState(invalidateCache(w))

\* setTimeout / clearTimeout of the event loop
MaxTimeouts == MaxTab + 1

FreshHandle(w) ==
    CHOOSE h \in 1..(MaxTimeouts + MaxTab) :
        /\ \A q \in w.timeouts : q.handle # h
        /\ \A t \in TabIds : w.updateDebounceTimers[t] # h

clearTimeout(w, h) == [w EXCEPT !.timeouts = {q \in @ : q.handle # h}]

ExtendedTab(tab, lastActiveAt, spaceId) ==
    [id |-> tab.id, windowId |-> tab.windowId, index |-> tab.index,
     title |-> tab.title, lastActiveAt |-> lastActiveAt, spaceId |-> spaceId]

\* chrome.tabs.onCreated listener
Engine_onCreated(w, tab) ==
    IF tab.id = UndefinedId THEN w
    ELSE
    LET extendedTab == ExtendedTab(tab, now, UndefinedSpace)
        w1 == [w EXCEPT !.state.tabs = MapSet(@, extendedTab)]
        w2 == IF MapHas(w1.state.windows, tab.windowId)
              THEN LET window == MapGet(w1.state.windows, tab.windowId)
                   IN  [w1 EXCEPT !.state.windows =
                           MapSet(@, [window EXCEPT !.tabIds = Append(@, tab.id)])]
              ELSE w1
    IN  broadcastMessage(notifySubscribers(Touch(w2)),
            [type |-> "TAB_CREATED", tab |-> extendedTab, windowId |-> tab.windowId])

\* the listener without its first statement (the pending timer is left alone)
Engine_onRemoved_KeepTimer(w, tabId, windowId) ==
    LET w2 == [w EXCEPT !.state.tabs = MapDelete(@, tabId)]
        w3 == IF MapHas(w2.state.windows, windowId)
              THEN LET window == MapGet(w2.state.windows, windowId)
                   IN  [w2 EXCEPT !.state.windows =
                           MapSet(@, [window EXCEPT !.tabIds = Without(@, tabId)])]
              ELSE w2
        w4 == IF w3.state.activeTabId = tabId
              THEN [w3 EXCEPT !.state.activeTabId = NULL]
              ELSE w3
    IN  broadcastMessage(notifySubscribers(Touch(w4)),
            [type |-> "TAB_REMOVED", tabId |-> tabId, windowId |-> windowId])

\* chrome.tabs.onRemoved listener
Engine_onRemoved(w, tabId, windowId) ==
    LET pendingTimer == w.updateDebounceTimers[tabId]
        w1 == IF pendingTimer # NULL
              THEN [clearTimeout(w, pendingTimer)
                        EXCEPT !.updateDebounceTimers[tabId] = NULL]
              ELSE w
        w2 == [w1 EXCEPT !.state.tabs = MapDelete(@, tabId)]
        w3 == IF MapHas(w2.state.windows, windowId)
              THEN LET window == MapGet(w2.state.windows, windowId)
                   IN  [w2 EXCEPT !.state.windows =
                           MapSet(@, [window EXCEPT !.tabIds = Without(@, tabId)])]
              ELSE w2
        w4 == IF w3.state.activeTabId = tabId
              THEN [w3 EXCEPT !.state.activeTabId = NULL]
              ELSE w3
    IN  broadcastMessage(notifySubscribers(Touch(w4)),
            [type |-> "TAB_REMOVED", tabId |-> tabId, windowId |-> windowId])

\* the onUpdated listener arming a second timer without cancelling the pending one
Engine_onUpdated_NoClear(w, tabId, changeInfo, tab) ==
    LET timer == FreshHandle(w)
    IN  [w EXCEPT
            !.timeouts = @ \cup {[handle |-> timer, tabId |-> tabId,
                                  changeInfo |-> changeInfo, tab |-> tab]},
            !.updateDebounceTimers[tabId] = timer]

\* chrome.tabs.onUpdated listener: (re)arm the tab's debounce timer
Engine_onUpdated(w, tabId, changeInfo, tab) ==
    LET existingTimer == w.updateDebounceTimers[tabId]
        w1 == IF existingTimer # NULL THEN clearTimeout(w, existingTimer) ELSE w
        timer == FreshHandle(w1)
    IN  [w1 EXCEPT
            !.timeouts = @ \cup {[handle |-> timer, tabId |-> tabId,
                                  changeInfo |-> changeInfo, tab |-> tab]},
            !.updateDebounceTimers[tabId] = timer]

\* a flush that stores the notification's tab alone, without the lastActiveAt
\* and spaceId of the entry it replaces
handleTabUpdated_Overwrite(w, tabId, changeInfo, tab) ==
    LET hasMeaningfulChange == \E key \in meaningfulChanges : key \in changeInfo
    IN  IF ~hasMeaningfulChange THEN w
        ELSE
        LET extendedTab == ExtendedTab(tab, Undefined, UndefinedSpace)
            w1 == [w EXCEPT !.state.tabs = MapSet(@, [extendedTab EXCEPT !.id = tabId])]
        IN  broadcastMessage(notifySubscribers(Touch(w1)),
                [type |-> "TAB_UPDATED", tab |-> extendedTab])

\* a flush that applies the tab whatever the change-info holds
handleTabUpdated_AnyChange(w, tabId, changeInfo, tab) ==
    LET known == MapHas(w.state.tabs, tabId)
        existingTab == MapGet(w.state.tabs, tabId)
        extendedTab ==
            ExtendedTab(tab,
                IF known THEN existingTab.lastActiveAt ELSE Undefined,
                IF known THEN existingTab.spaceId ELSE UndefinedSpace)
        w1 == [w EXCEPT !.state.tabs = MapSet(@, [extendedTab EXCEPT !.id = tabId])]
    IN  broadcastMessage(notifySubscribers(Touch(w1)),
            [type |-> "TAB_UPDATED", tab |-> extendedTab])

\* handleTabUpdated: the debounced update is applied when its change-info has an
\* allow-listed key
handleTabUpdated(w, tabId, changeInfo, tab) ==
    LET hasMeaningfulChange == \E key \in meaningfulChanges : key \in changeInfo
    IN  IF ~hasMeaningfulChange THEN w
        ELSE
        LET known == MapHas(w.state.tabs, tabId)
            existingTab == MapGet(w.state.tabs, tabId)
            extendedTab ==
                ExtendedTab(tab,
                    IF known THEN existingTab.lastActiveAt ELSE Undefined,
                    IF known THEN existingTab.spaceId ELSE UndefinedSpace)
            \* this.state.tabs.set(tabId, ...): the key is the listener's tabId
            w1 == [w EXCEPT !.state.tabs = MapSet(@, [extendedTab EXCEPT !.id = tabId])]
        IN  broadcastMessage(notifySubscribers(Touch(w1)),
                [type |-> "TAB_UPDATED", tab |-> extendedTab])

\* the setTimeout callback armed by the onUpdated listener
Engine_debounceCallback(w, q) ==
    LET w1 == [w EXCEPT !.timeouts = @ \ {q}]
        w2 == handleTabUpdated(w1, q.tabId, q.changeInfo, q.tab)
    IN  [w2 EXCEPT !.updateDebounceTimers[q.tabId] = NULL]

\* chrome.tabs.onActivated listener
Engine_onActivated(w, tabId, windowId) ==
    LET timestamp == now
        w1 == IF MapHas(w.state.tabs, tabId)
              THEN [w EXCEPT !.state.tabs =
                       MapSet(@, [MapGet(@, tabId) EXCEPT !.lastActiveAt = timestamp])]
              ELSE w
        w2 == setTabMetadata(w1, tabId, [lastActiveAt |-> timestamp])
        w3 == [w2 EXCEPT !.state.activeTabId = tabId,
                         !.state.activeWindowId = windowId]
    IN  broadcastMessage(notifySubscribers(Touch(w3)),
            [type |-> "TAB_ACTIVATED", tabId |-> tabId, windowId |-> windowId])

\* chrome.tabs.onMoved listener
Engine_onMoved(w, tabId, windowId, fromIndex, toIndex) ==
    LET w1 == IF MapHas(w.state.windows, windowId)
              THEN LET window == MapGet(w.state.windows, windowId)
                   IN  [w EXCEPT !.state.windows =
                           MapSet(@, [window EXCEPT !.tabIds =
                                         Splice(Without(@, tabId), toIndex, tabId)])]
              ELSE w
        w2 == IF MapHas(w1.state.tabs, tabId)
              THEN [w1 EXCEPT !.state.tabs =
                       MapSet(@, [MapGet(@, tabId) EXCEPT !.index = toIndex,
                                                          !.windowId = windowId])]
              ELSE w1
    IN  broadcastMessage(notifySubscribers(Touch(w2)),
            [type |-> "TAB_MOVED", tabId |-> tabId, fromIndex |-> fromIndex,
             toIndex |-> toIndex, windowId |-> windowId])

\* chrome.tabs.onAttached listener
Engine_onAttached(w, tabId, newWindowId, newPosition) ==
    LET w1 == IF MapHas(w.state.tabs, tabId)
              THEN [w EXCEPT !.state.tabs =
                       MapSet(@, [MapGet(@, tabId) EXCEPT !.windowId = newWindowId,
                                                          !.index = newPosition])]
              ELSE w
        w2 == IF MapHas(w1.state.windows, newWindowId)
              THEN LET window == MapGet(w1.state.windows, newWindowId)
                   IN  [w1 EXCEPT !.state.windows =
                           MapSet(@, [window EXCEPT !.tabIds =
                                         Splice(@, newPosition, tabId)])]
              ELSE w1
    IN  notifySubscribers(Touch(w2))

\* chrome.tabs.onDetached listener
Engine_onDetached(w, tabId, oldWindowId) ==
    LET w1 == IF MapHas(w.state.windows, oldWindowId)
              THEN LET window == MapGet(w.state.windows, oldWindowId)
                   IN  [w EXCEPT !.state.windows =
                           MapSet(@, [window EXCEPT !.tabIds = Without(@, tabId)])]
              ELSE w
    IN  notifySubscribers(Touch(w1))

\* chrome.windows.onCreated listener
Engine_onWindowCreated(w, window) ==
    IF window.id = UndefinedId THEN w
    ELSE
    LET w1 == [w EXCEPT !.state.windows =
                  MapSet(@, [id |-> window.id, focused |-> window.focused,
                             tabIds |-> <<>>])]
    IN  broadcastMessage(notifySubscribers(Touch(w1)),
            [type |-> "WINDOW_CREATED", windowId |-> window.id])

\* a windows.onRemoved listener that forgets the window and keeps its tabs
Engine_onWindowRemoved_NoCascade(w, windowId) ==
    LET w2 == [w EXCEPT !.state.windows = MapDelete(@, windowId)]
        w3 == IF w2.state.activeWindowId = windowId
              THEN [w2 EXCEPT !.state.activeWindowId = NULL,
                              !.state.activeTabId = NULL]
              ELSE w2
    IN  broadcastMessage(notifySubscribers(Touch(w3)),
            [type |-> "WINDOW_REMOVED", windowId |-> windowId])

\* chrome.windows.onRemoved listener
Engine_onWindowRemoved(w, windowId) ==
    LET w1 == IF MapHas(w.state.windows, windowId)
              THEN LET window == MapGet(w.state.windows, windowId)
                   IN  [w EXCEPT !.state.tabs =
                           SelectSeq(@, LAMBDA t : ~Includes(window.tabIds, t.id))]
              ELSE w
        w2 == [w1 EXCEPT !.state.windows = MapDelete(@, windowId)]
        w3 == IF w2.state.activeWindowId = windowId
              THEN [w2 EXCEPT !.state.activeWindowId = NULL,
                              !.state.activeTabId = NULL]
              ELSE w2
    IN  broadcastMessage(notifySubscribers(Touch(w3)),
            [type |-> "WINDOW_REMOVED", windowId |-> windowId])

\* chrome.windows.onFocusChanged listener
Engine_onFocusChanged(w, windowId) ==
    IF windowId = WINDOW_ID_NONE THEN w
    ELSE IF w.state.activeWindowId = windowId THEN w
    ELSE
    LET prevWindowId == w.state.activeWindowId
        w1 == IF prevWindowId # NULL /\ MapHas(w.state.windows, prevWindowId)
              THEN [w EXCEPT !.state.windows =
                       MapSet(@, [MapGet(@, prevWindowId) EXCEPT !.focused = FALSE])]
              ELSE w
        w2 == IF MapHas(w1.state.windows, windowId)
              THEN [w1 EXCEPT !.state.windows =
                       MapSet(@, [MapGet(@, windowId) EXCEPT !.focused = TRUE])]
              ELSE w1
        w3 == [w2 EXCEPT !.state.activeWindowId = windowId]
    IN  broadcastMessage(notifySubscribers(Touch(w3)),
            [type |-> "WINDOW_FOCUSED", windowId |-> windowId])

\* Object.assign(tab, metadata): the keys metadata carries are copied
updateTabMetadata(w, tabId, metadata) ==
    IF MapHas(w.state.tabs, tabId)
    THEN notifySubscribers(Touch(
            [w EXCEPT !.state.tabs = MapSet(@, Spread(MapGet(@, tabId), metadata))]))
    ELSE w

getTab(w, tabId) == MapGet(w.state.tabs, tabId)

getAllTabs(w) == w.state.tabs

\* getTabsForWindow: the window's listed tabs that exist, sorted by index
getTabsForWindow(w, windowId) ==
    IF ~MapHas(w.state.windows, windowId) THEN <<>>
    ELSE LET ids == MapGet(w.state.windows, windowId).tabIds
             present == SelectSeq(ids, LAMBDA id : MapHas(w.state.tabs, id))
         IN  SortByIndex([i \in 1..Len(present) |-> MapGet(w.state.tabs, present[i])])

\* syncWithChrome, the loop over one window's tabs
RECURSIVE SyncTabs(_, _, _)
SyncTabs(w, window, ts) ==
    IF ts = <<>> THEN w
    ELSE LET tab == Head(ts)
         IN  IF tab.id = UndefinedId THEN SyncTabs(w, window, Tail(ts))
             ELSE SyncTabs(
                    [w EXCEPT
                        !.state.tabs =
                            MapSet(@, ExtendedTab(tab,
                                        IF tab.active THEN now ELSE Undefined,
                                        UndefinedSpace)),
                        !.state.activeTabId =
                            IF tab.active /\ window.focused THEN tab.id ELSE @],
                    window, Tail(ts))

\* syncWithChrome, the loop over the windows
RECURSIVE SyncWindows(_, _)
SyncWindows(w, windows) ==
    IF windows = <<>> THEN w
    ELSE LET window == Head(windows)
         IN  IF window.id = UndefinedId THEN SyncWindows(w, Tail(windows))
             ELSE LET w1 == SyncTabs(w, window, window.tabs)
                      withId == SelectSeq(window.tabs, LAMBDA t : t.id # UndefinedId)
                      tabIds == [i \in 1..Len(withId) |-> withId[i].id]
                  IN  SyncWindows(
                        [w1 EXCEPT !.state.windows =
                            MapSet(@, [id |-> window.id, focused |-> window.focused,
                                       tabIds |-> tabIds])],
                        Tail(windows))

\* syncWithChrome filling the maps without clearing them first
syncWithChrome_NoClear(w, windows) ==
    LET focusedAt == {i \in 1..Len(windows) : windows[i].focused}
        focusedId == IF focusedAt = {} THEN NULL
                     ELSE windows[CHOOSE i \in focusedAt : \A j \in focusedAt : i <= j].id
        w0 == [w EXCEPT !.state.activeWindowId = focusedId]
    IN  notifySubscribers(Touch(SyncWindows(w0, windows)))

\* syncWithChrome, from the point where chrome.windows.getAll has resolved
syncWithChrome(w, windows) ==
    LET focusedAt == {i \in 1..Len(windows) : windows[i].focused}
        focusedId == IF focusedAt = {} THEN NULL
                     ELSE windows[CHOOSE i \in focusedAt : \A j \in focusedAt : i <= j].id
        w0 == [w EXCEPT !.state.tabs = <<>>,
                        !.state.windows = <<>>,
                        !.state.activeWindowId = focusedId]
    IN  notifySubscribers(Touch(SyncWindows(w0, windows)))

\* =====================================================================
\* StateManager load (lib/storage.ts)
\* =====================================================================

\* normalizeSpaces: persisted spaces keep their ids; a missing default is put first
normalizeSpaces(sp) ==
    IF \E i \in 1..Len(sp) : sp[i].id = DEFAULT_SPACE_ID
    THEN sp
    ELSE <<DEFAULT_SPACE>> \o sp

\* new Map(spaces.map(s => [s.id, s])).get(id): the last space with that id, 0 for none
SpaceMapGet(sp, id) ==
    IF \E i \in 1..Len(sp) : sp[i].id = id
    THEN CHOOSE i \in 1..Len(sp) :
            sp[i].id = id /\ \A j \in (i + 1)..Len(sp) : sp[j].id # id
    ELSE 0

\* rebuildSpaceTabIds, the loop over Object.entries(tabMetadata)
RECURSIVE RebuildLoop(_, _, _, _)
RebuildLoop(sp, meta, entries, keys) ==
    IF keys = <<>> THEN [spaces |-> sp, tabMetadata |-> meta]
    ELSE LET tabId == Head(keys)
             metadata == entries[tabId]
             targetSpaceId == IF metadata.spaceId # UndefinedSpace
                              THEN metadata.spaceId ELSE DEFAULT_SPACE_ID
             n == IF SpaceMapGet(sp, targetSpaceId) # 0
                  THEN SpaceMapGet(sp, targetSpaceId)
                  ELSE SpaceMapGet(sp, DEFAULT_SPACE_ID)
         IN  IF n = 0 THEN RebuildLoop(sp, meta, entries, Tail(keys))
             ELSE RebuildLoop(
                    IF Includes(sp[n].tabIds, tabId) THEN sp
                    ELSE [sp EXCEPT ![n].tabIds = Append(@, tabId)],
                    IF metadata.spaceId # sp[n].id
                    THEN MetadataPut(meta, tabId, [metadata EXCEPT !.spaceId = sp[n].id])
                    ELSE meta,
                    entries, Tail(keys))

\* rebuildSpaceTabIds without the loop that empties the member lists
rebuildSpaceTabIds_NoClear(w) ==
    LET rebuilt == RebuildLoop(w.spaces, w.tabMetadata, w.tabMetadata,
                               Ascending(DOMAIN w.tabMetadata))
        w1 == [w EXCEPT !.spaces = rebuilt.spaces, !.tabMetadata = rebuilt.tabMetadata]
    IN  IF rebuilt.tabMetadata # w.tabMetadata THEN scheduleSave(w1, FALSE) ELSE w1

rebuildSpaceTabIds(w) ==
    LET cleared == [i \in 1..Len(w.spaces) |-> [w.spaces[i] EXCEPT !.tabIds = <<>>]]
        rebuilt == RebuildLoop(cleared, w.tabMetadata, w.tabMetadata,
                               Ascending(DOMAIN w.tabMetadata))
        w1 == [w EXCEPT !.spaces = rebuilt.spaces, !.tabMetadata = rebuilt.tabMetadata]
    IN  IF rebuilt.tabMetadata # w.tabMetadata THEN scheduleSave(w1, FALSE) ELSE w1

\* StateManager.initialize, from the point where loadPersistedState has resolved.
\* loadSpaces writes the normalized list back when the stored one lacks the default.
StateManager_initialize(w) ==
    LET normalized == normalizeSpaces(w.storage.spaces)
        w1 == IF normalized # w.storage.spaces
              THEN [w EXCEPT !.storage.spaces = normalized]
              ELSE w
    IN  rebuildSpaceTabIds([w1 EXCEPT !.spaces = normalized,
                                      !.tabMetadata = w1.storage.tabMetadata])

\* =====================================================================
\* Service worker (background/service-worker.ts)
\* =====================================================================

enrichTabWithMetadata(w, tab) ==
    LET entry == MetadataOf(w.tabMetadata, tab.id)
    IN  [tab EXCEPT
            !.spaceId = IF entry.spaceId # UndefinedSpace THEN entry.spaceId ELSE @,
            !.lastActiveAt = IF entry.lastActiveAt # Undefined
                             THEN entry.lastActiveAt ELSE @]

updateLastActive(w, tabId) ==
    LET w1 == setTabMetadata(w, tabId, [lastActiveAt |-> now])
        w2 == updateTabMetadata(w1, tabId, [lastActiveAt |-> now])
    IN  IF MapHas(w2.state.tabs, tabId)
        THEN broadcastMessage(w2,
                [type |-> "TAB_UPDATED", tab |-> enrichTabWithMetadata(w2, getTab(w2, tabId))])
        ELSE w2

\* the keys a stored metadata entry carries
PresentKeys(data) ==
    {k \in DOMAIN data :
        IF k = "spaceId" THEN data[k] # UndefinedSpace ELSE data[k] # Undefined}

\* initialize(): apply persisted metadata to tabs
RECURSIVE ApplyMetadata(_, _)
ApplyMetadata(w, keys) ==
    IF keys = <<>> THEN w
    ELSE LET data == w.tabMetadata[Head(keys)]
         IN  ApplyMetadata(
                IF PresentKeys(data) # {}
                THEN updateTabMetadata(w, Head(keys), [k \in PresentKeys(data) |-> data[k]])
                ELSE w,
                Tail(keys))

\* initialize(), from the point where the active-tab query has resolved to the
\* end; activeTabId is UndefinedId when the query found none or was rejected
ServiceWorker_seed(w, activeTab) ==
    LET w1 == IF activeTab # UndefinedId THEN updateLastActive(w, activeTab) ELSE w
    IN  ApplyMetadata(w1, Ascending(DOMAIN w1.tabMetadata))

\* chrome.tabs.onRemoved listener of the service worker
ServiceWorker_onRemoved(w, tabId) == removeTabMetadata(w, tabId)

\* chrome.tabs.onActivated listener of the service worker
ServiceWorker_onActivated(w, tabId, windowId) ==
    broadcastMessage(updateLastActive(w, tabId),
        [type |-> "TAB_ACTIVATED", tabId |-> tabId, windowId |-> windowId])

\* chrome.tabs.onCreated listener of the service worker
ServiceWorker_onCreated(w, tab) ==
    IF tab.id = UndefinedId THEN w
    ELSE IF MetadataOf(w.tabMetadata, tab.id).spaceId # UndefinedSpace THEN w
    ELSE
    LET targetSpaceId == IF uiActiveSpaceId = ALL_TABS_ID
                         THEN DEFAULT_SPACE_ID ELSE uiActiveSpaceId
        assigned == assignTabToSpace(w, tab.id, targetSpaceId)
        w1 == updateTabMetadata(assigned.w, tab.id, [spaceId |-> assigned.ret])
    IN  IF MapHas(w1.state.tabs, tab.id)
        THEN broadcastMessage(w1,
                [type |-> "TAB_UPDATED",
                 tab |-> [getTab(w1, tab.id) EXCEPT !.spaceId = assigned.ret]])
        ELSE w1

\* handleMessage, case ASSIGN_TAB_TO_SPACE
Handle_ASSIGN_TAB_TO_SPACE(w, tabId, spaceId) ==
    LET assigned == assignTabToSpace(w, tabId, spaceId)
        w1 == updateTabMetadata(assigned.w, tabId, [spaceId |-> assigned.ret])
    IN  IF MapHas(w1.state.tabs, tabId)
        THEN broadcastMessage(w1,
                [type |-> "TAB_UPDATED",
                 tab |-> [getTab(w1, tabId) EXCEPT !.spaceId = assigned.ret]])
        ELSE w1

\* handleMessage, case DELETE_SPACE: the loop over the moved tab ids
RECURSIVE MoveToDefault(_, _)
MoveToDefault(w, movedTabIds) ==
    IF movedTabIds = <<>> THEN w
    ELSE LET tabId == Head(movedTabIds)
             w1 == updateTabMetadata(w, tabId, [spaceId |-> DEFAULT_SPACE_ID])
         IN  MoveToDefault(
                IF MapHas(w1.state.tabs, tabId)
                THEN broadcastMessage(w1,
                        [type |-> "TAB_UPDATED",
                         tab |-> [getTab(w1, tabId) EXCEPT !.spaceId = DEFAULT_SPACE_ID]])
                ELSE w1,
                Tail(movedTabIds))

Handle_DELETE_SPACE(w, spaceId) ==
    LET removed == removeSpace(w, spaceId)
    IN  MoveToDefault(removed.w, removed.ret)

\* =====================================================================
\* The host: chrome.windows / chrome.tabs as the extension sees them
\* =====================================================================

\* Windows in creation order, each with its tab strip and its active tab; tab
\* and window ids are handed out once and never reused.
HostInit ==
    [windows |-> <<[id |-> 1, tabs |-> <<1>>, active |-> 1]>>,
     focused |-> 1,
     title |-> [t \in TabIds |-> 0],
     tabsOpened |-> 1,
     windowsOpened |-> 1]

HostOpenWindows(h) == {h.windows[k].id : k \in 1..Len(h.windows)}

HostOpenTabs(h) == UNION {Range(h.windows[k].tabs) : k \in 1..Len(h.windows)}

\* the position in h.windows of the window with this id / holding this tab
HostWindowAt(h, windowId) == CHOOSE k \in 1..Len(h.windows) : h.windows[k].id = windowId

HostWindowOf(h, tabId) ==
    CHOOSE k \in 1..Len(h.windows) : Includes(h.windows[k].tabs, tabId)

PositionIn(s, x) == CHOOSE i \in 1..Len(s) : s[i] = x

\* the chrome.tabs.Tab object the host hands out for an open tab
HostTab(h, tabId) ==
    LET window == h.windows[HostWindowOf(h, tabId)]
    IN  [id |-> tabId, windowId |-> window.id,
         index |-> PositionIn(window.tabs, tabId) - 1, title |-> h.title[tabId]]

\* chrome.windows.getAll({ populate: true })
HostGetAll(h) ==
    [k \in 1..Len(h.windows) |->
        LET window == h.windows[k]
        IN  [id |-> window.id, focused |-> (h.focused = window.id),
             tabs |-> [i \in 1..Len(window.tabs) |->
                        [id |-> window.tabs[i], windowId |-> window.id,
                         index |-> i - 1, title |-> h.title[window.tabs[i]],
                         active |-> (window.active = window.tabs[i])]]]]

\* chrome.tabs.query({ active: true, windowId }): the id of the window's active
\* tab, UndefinedId when the window is gone
HostActiveTab(h, windowId) ==
    IF windowId \in HostOpenWindows(h)
    THEN h.windows[HostWindowAt(h, windowId)].active
    ELSE UndefinedId

\* the tab that becomes active when the tab at position i of strip s goes away
NextActive(s, i) == IF i < Len(s) THEN s[i + 1] ELSE s[i - 1]

\* the window that takes the focus when a focused window goes away
NextFocused(h, windowId) ==
    LET others == HostOpenWindows(h) \ {windowId}
    IN  IF others = {} THEN WINDOW_ID_NONE
        ELSE CHOOSE x \in others : \A y \in others : x <= y

RemoveAt(s, i) == SubSeq(s, 1, i - 1) \o SubSeq(s, i + 1, Len(s))

\* the host closes a window: the window goes, the focus moves on
HostWithoutWindow(h, windowId) ==
    [h EXCEPT !.windows = SelectSeq(@, LAMBDA x : x.id # windowId),
              !.focused = IF @ = windowId THEN NextFocused(h, windowId) ELSE @]

\* the notifications of a window going away
WindowGoneEvents(h, windowId) ==
    <<[kind |-> "windows.onRemoved", windowId |-> windowId]>> \o
    (IF h.focused = windowId
     THEN <<[kind |-> "windows.onFocusChanged", windowId |-> NextFocused(h, windowId)]>>
     ELSE <<>>)

\* =====================================================================
\* Initial state: the service worker's script has run, nothing has resolved
\* =====================================================================

EmptyMetadata == [t \in {} |-> NoMetadata]

EmptyStorage == [spaces |-> <<>>, tabMetadata |-> EmptyMetadata]

\* no update notification is waiting for its timer
NoBurst == [size |-> 0, tab |-> <<>>, changeInfo |-> {}]

\* new TabEngine(), new StateManager(), the service worker's top-level lets
Constructed ==
    /\ state = [tabs |-> <<>>, windows |-> <<>>, activeTabId |-> NULL,
                activeWindowId |-> NULL, lastUpdated |-> now]
    /\ updateDebounceTimers = [t \in TabIds |-> NULL]
    /\ timeouts = {}
    /\ serializedStateCache = <<>>
    /\ cacheLastUpdated = 0
    /\ spaces = <<DEFAULT_SPACE>>
    /\ tabMetadata = EmptyMetadata
    /\ saveDebounceTimer = FALSE
    /\ uiActiveSpaceId = DEFAULT_SPACE_ID
    /\ phase = "load"
    /\ sent = <<>>
    /\ last = [op |-> "load"]
    /\ burst = [t \in TabIds |-> NoBurst]
    /\ mutatedSinceRead = TRUE
    /\ rebuiltSinceRead = FALSE
    /\ focusQueries = <<>>
    /\ getAllResults = <<>>
    /\ events = <<>>

NoPanel ==
    /\ tabs = <<>> /\ activeTabId = NULL /\ received = <<>>
    /\ isLoading = TRUE /\ panelStep = "query"

NoPins == pinRequests = {} /\ hostPinned = {} /\ requests = <<>>

\* chrome.runtime.onStartup has not fired
NoStartup ==
    /\ startupPhase = "idle"
    /\ startupListeners = [engine |-> FALSE, worker |-> FALSE]
    /\ loadResults = <<>>

progVars == <<state, updateDebounceTimers, timeouts, serializedStateCache,
              cacheLastUpdated, spaces, tabMetadata, saveDebounceTimer, storage,
              sent, mutatedSinceRead, rebuiltSinceRead>>
panelVars == <<tabs, activeTabId, received, isLoading, panelStep>>
pinVars == <<pinRequests, hostPinned, requests>>
startupVars == <<startupPhase, startupListeners, loadResults>>

\* what a step of the service worker's event loop leaves alone besides the
\* variables it names
LoopFrame == UNCHANGED <<now, host, uiActiveSpaceId, pinVars, panelVars, startupVars>>

\* =====================================================================
\* Steps of the service worker's event loop
\* =====================================================================

\* the wall clock advances
Tick ==
    /\ now < MaxClock
    /\ now' = now + 1
    /\ UNCHANGED <<host, events, getAllResults, progVars, uiActiveSpaceId, phase,
                   last, burst, focusQueries, pinVars, panelVars, startupVars>>

\* initialize(): stateManager.initialize() resolves; tabEngine.initialize() starts
\* and the host answers its chrome.windows.getAll
StorageLoaded ==
    /\ phase = "load"
    /\ Commit(StateManager_initialize(World))
    /\ phase' = "sync"
    /\ getAllResults' = <<HostGetAll(host)>>
    /\ last' = [op |-> "StateManager.initialize"]
    /\ UNCHANGED <<events, burst, focusQueries>>
    /\ LoopFrame

\* tabEngine.initialize(): syncWithChrome resumes with the host's answer; the
\* engine's listeners are attached
EngineSynced ==
    /\ phase = "sync"
    /\ getAllResults # <<>>
    /\ Commit(syncWithChrome(World, Head(getAllResults)))
    /\ getAllResults' = Tail(getAllResults)
    /\ phase' = "seed"
    /\ last' = [op |-> "syncWithChrome", windows |-> Head(getAllResults),
                before |-> MapKeys(state.tabs)]
    /\ UNCHANGED <<events, burst, focusQueries>>
    /\ LoopFrame

\* initialize(): the active-tab query resolves (UndefinedId: no tab, or rejected);
\* the rest of initialize() runs and the service worker's listeners are registered
Seeded(activeTab) ==
    /\ phase = "seed"
    /\ Commit(ServiceWorker_seed(World, activeTab))
    /\ phase' = "ready"
    /\ last' = [op |-> "seed", tabId |-> activeTab]
    /\ UNCHANGED <<events, getAllResults, burst, focusQueries>>
    /\ LoopFrame

EngineListening == phase \in {"seed", "ready"}
WorkerListening == phase = "ready"

\* what a host event did: its kind and ids, whether its ids were in the store
\* before, and whether a listener wrote lastUpdated
Event(kind, tabId, windowId, w) ==
    [op |-> kind, tabId |-> tabId, windowId |-> windowId,
     knownTab |-> MapHas(state.tabs, tabId),
     knownWindow |-> MapHas(state.windows, windowId),
     accepted |-> w.touched]

Dispatched(kind) == events # <<>> /\ Head(events).kind = kind

EventFrame ==
    /\ events' = Tail(events)
    /\ UNCHANGED <<getAllResults, phase, burst, focusQueries>>
    /\ LoopFrame

\* chrome.tabs.onCreated is handled
TabCreated ==
    /\ Dispatched("tabs.onCreated")
    /\ LET tab == Head(events).tab
           w1 == Engine_onCreated(World, tab)
           w2 == IF WorkerListening THEN ServiceWorker_onCreated(w1, tab) ELSE w1
       IN  Commit(w2) /\ last' = Event("tabs.onCreated", tab.id, tab.windowId, w2)
    /\ EventFrame

\* chrome.tabs.onRemoved is handled
TabRemoved ==
    /\ Dispatched("tabs.onRemoved")
    /\ LET e == Head(events)
           w1 == Engine_onRemoved(World, e.tabId, e.windowId)
           w2 == IF WorkerListening THEN ServiceWorker_onRemoved(w1, e.tabId) ELSE w1
       IN  /\ Commit(w2)
           /\ last' = [op |-> "tabs.onRemoved", tabId |-> e.tabId,
                       windowId |-> e.windowId,
                       knownTab |-> MapHas(state.tabs, e.tabId),
                       knownWindow |-> MapHas(state.windows, e.windowId),
                       accepted |-> w2.touched,
                       pendingTimer |-> updateDebounceTimers[e.tabId]]
           /\ burst' = [burst EXCEPT ![e.tabId] = NoBurst]
    /\ events' = Tail(events)
    /\ UNCHANGED <<getAllResults, phase, focusQueries>>
    /\ LoopFrame

\* chrome.tabs.onUpdated is handled
TabUpdated ==
    /\ Dispatched("tabs.onUpdated")
    /\ Cardinality(timeouts) < MaxTimeouts
    /\ LET e == Head(events)
           w1 == Engine_onUpdated(World, e.tabId, e.changeInfo, e.tab)
       IN  /\ Commit(w1)
           /\ last' = Event("tabs.onUpdated", e.tabId, e.tab.windowId, w1)
           /\ burst' = [burst EXCEPT ![e.tabId] =
                          [size |-> IF \E q \in timeouts : q.tabId = e.tabId
                                    THEN Min(@.size + 1, MaxBurst) ELSE 1,
                           tab |-> e.tab, changeInfo |-> e.changeInfo]]
    /\ events' = Tail(events)
    /\ UNCHANGED <<getAllResults, phase, focusQueries>>
    /\ LoopFrame

\* a debounce timer fires: the flush ends the tab's burst
DebounceFired(q) ==
    /\ q \in timeouts
    /\ LET w1 == Engine_debounceCallback(World, q)
       IN  /\ Commit(w1)
           /\ burst' = [burst EXCEPT ![q.tabId] = NoBurst]
           /\ last' = [op |-> "debounce", tabId |-> q.tabId, windowId |-> q.tab.windowId,
                       burst |-> burst[q.tabId],
                       knownTab |-> MapHas(state.tabs, q.tabId),
                       knownWindow |-> MapHas(state.windows, q.tab.windowId),
                       accepted |-> w1.touched]
    /\ UNCHANGED <<events, getAllResults, phase, focusQueries>>
    /\ LoopFrame

\* chrome.tabs.onActivated is handled
TabActivated ==
    /\ Dispatched("tabs.onActivated")
    /\ LET e == Head(events)
           w1 == Engine_onActivated(World, e.tabId, e.windowId)
           w2 == IF WorkerListening
                 THEN ServiceWorker_onActivated(w1, e.tabId, e.windowId) ELSE w1
       IN  Commit(w2) /\ last' = Event("tabs.onActivated", e.tabId, e.windowId, w2)
    /\ EventFrame

\* chrome.tabs.onMoved is handled
TabMoved ==
    /\ Dispatched("tabs.onMoved")
    /\ LET e == Head(events)
           w1 == Engine_onMoved(World, e.tabId, e.windowId, e.fromIndex, e.toIndex)
       IN  Commit(w1) /\ last' = Event("tabs.onMoved", e.tabId, e.windowId, w1)
    /\ EventFrame

\* chrome.tabs.onAttached is handled
TabAttached ==
    /\ Dispatched("tabs.onAttached")
    /\ LET e == Head(events)
           w1 == Engine_onAttached(World, e.tabId, e.newWindowId, e.newPosition)
       IN  Commit(w1) /\ last' = Event("tabs.onAttached", e.tabId, e.newWindowId, w1)
    /\ EventFrame

\* chrome.tabs.onDetached is handled
TabDetached ==
    /\ Dispatched("tabs.onDetached")
    /\ LET e == Head(events)
           w1 == Engine_onDetached(World, e.tabId, e.oldWindowId)
       IN  Commit(w1) /\ last' = Event("tabs.onDetached", e.tabId, e.oldWindowId, w1)
    /\ EventFrame

\* chrome.windows.onCreated is handled
WindowCreated ==
    /\ Dispatched("windows.onCreated")
    /\ LET e == Head(events)
           w1 == Engine_onWindowCreated(World, e.window)
       IN  Commit(w1) /\ last' = Event("windows.onCreated", NULL, e.window.id, w1)
    /\ EventFrame

\* chrome.windows.onRemoved is handled
WindowRemoved ==
    /\ Dispatched("windows.onRemoved")
    /\ LET e == Head(events)
           w1 == Engine_onWindowRemoved(World, e.windowId)
       IN  /\ Commit(w1)
           /\ last' = [op |-> "windows.onRemoved", tabId |-> NULL,
                       windowId |-> e.windowId,
                       knownTab |-> FALSE,
                       knownWindow |-> MapHas(state.windows, e.windowId),
                       accepted |-> w1.touched,
                       cascaded |-> MapKeys(state.tabs) \ MapKeys(w1.state.tabs)]
    /\ EventFrame

\* chrome.windows.onFocusChanged is handled; the service worker's listener starts
\* its active-tab query
WindowFocusChanged ==
    /\ Dispatched("windows.onFocusChanged")
    /\ Len(focusQueries) < MaxFocusQueries
    /\ LET e == Head(events)
           w1 == Engine_onFocusChanged(World, e.windowId)
       IN  /\ Commit(w1)
           /\ last' = Event("windows.onFocusChanged", NULL, e.windowId, w1)
           /\ focusQueries' = IF WorkerListening /\ e.windowId # WINDOW_ID_NONE
                              THEN Append(focusQueries, e.windowId) ELSE focusQueries
    /\ events' = Tail(events)
    /\ UNCHANGED <<getAllResults, phase, burst>>
    /\ LoopFrame

\* the focus listener's active-tab query resolves
FocusQueryResolved ==
    /\ focusQueries # <<>>
    /\ focusQueries' = Tail(focusQueries)
    /\ LET activeTab == HostActiveTab(host, Head(focusQueries))
           w1 == IF activeTab # UndefinedId THEN updateLastActive(World, activeTab)
                 ELSE World
       IN  Commit(w1) /\ last' = [op |-> "focusQuery", tabId |-> activeTab]
    /\ UNCHANGED <<events, getAllResults, phase, burst>>
    /\ LoopFrame

\* the save debounce timer fires
SaveFired ==
    /\ saveDebounceTimer
    /\ Commit(savePersistedState([World EXCEPT !.saveDebounceTimer = FALSE]))
    /\ last' = [op |-> "save"]
    /\ UNCHANGED <<events, getAllResults, phase, burst, focusQueries>>
    /\ LoopFrame

\* handleMessage, case GET_STATE: the response carries getSerializedState()
GetState ==
    /\ LET w1 == getSerializedState(World)
       IN  /\ Commit([w1 EXCEPT !.mutatedSinceRead = FALSE, !.rebuiltSinceRead = FALSE])
           /\ last' = [op |-> "GET_STATE", view |-> w1.serializedStateCache[1],
                       mutated |-> mutatedSinceRead, rebuilt |-> w1.rebuiltSinceRead]
    /\ UNCHANGED <<events, getAllResults, phase, burst, focusQueries>>
    /\ LoopFrame

\* =====================================================================
\* Steps of the host
\* =====================================================================

\* The host is followed from the moment it answers getAll. It dispatches the
\* notifications of one change before it makes the next; a notification reaches
\* the listeners attached when it is dispatched.
HostStep(h, notifications) ==
    /\ phase # "load"
    /\ events = <<>>
    /\ host' = h
    /\ events' = IF EngineListening THEN notifications ELSE <<>>
    /\ UNCHANGED <<now, getAllResults, progVars, uiActiveSpaceId, phase, last, burst,
                   focusQueries, pinVars, panelVars, startupVars>>

\* a tab opens in an open window, in the foreground or in the background
Host_OpenTab(windowId, index, active) ==
    /\ host.tabsOpened < MaxTab
    /\ windowId \in HostOpenWindows(host)
    /\ LET k == HostWindowAt(host, windowId)
           t == host.tabsOpened + 1
       IN  /\ index <= Len(host.windows[k].tabs)
           /\ LET h == [host EXCEPT
                          !.tabsOpened = t,
                          !.windows[k].tabs = Splice(@, index, t),
                          !.windows[k].active = IF active THEN t ELSE @]
              IN  HostStep(h,
                    <<[kind |-> "tabs.onCreated", tab |-> HostTab(h, t)]>> \o
                    (IF active
                     THEN <<[kind |-> "tabs.onActivated", tabId |-> t,
                             windowId |-> windowId]>>
                     ELSE <<>>))

\* a window opens with one new tab and takes the focus
Host_OpenWindow(reportedFocused) ==
    /\ host.tabsOpened < MaxTab
    /\ host.windowsOpened < MaxWin
    /\ LET t == host.tabsOpened + 1
           win == host.windowsOpened + 1
           h == [host EXCEPT
                    !.tabsOpened = t,
                    !.windowsOpened = win,
                    !.windows = Append(@, [id |-> win, tabs |-> <<t>>, active |-> t]),
                    !.focused = win]
       IN  HostStep(h,
             <<[kind |-> "windows.onCreated",
                window |-> [id |-> win, focused |-> reportedFocused]],
               [kind |-> "tabs.onCreated", tab |-> HostTab(h, t)],
               [kind |-> "tabs.onActivated", tabId |-> t, windowId |-> win],
               [kind |-> "windows.onFocusChanged", windowId |-> win]>>)

\* a tab closes; the last tab of a window takes the window with it
Host_CloseTab(tabId) ==
    /\ tabId \in HostOpenTabs(host)
    /\ LET k == HostWindowOf(host, tabId)
           window == host.windows[k]
           i == PositionIn(window.tabs, tabId)
           removed == [kind |-> "tabs.onRemoved", tabId |-> tabId,
                       windowId |-> window.id]
       IN  IF Len(window.tabs) = 1
           THEN HostStep(HostWithoutWindow(host, window.id),
                         <<removed>> \o WindowGoneEvents(host, window.id))
           ELSE HostStep(
                  [host EXCEPT
                      !.windows[k].tabs = RemoveAt(@, i),
                      !.windows[k].active =
                          IF @ = tabId THEN NextActive(window.tabs, i) ELSE @],
                  <<removed>> \o
                  (IF window.active = tabId
                   THEN <<[kind |-> "tabs.onActivated",
                           tabId |-> NextActive(window.tabs, i),
                           windowId |-> window.id]>>
                   ELSE <<>>))

\* a tab moves within its window
Host_MoveTab(tabId, toIndex) ==
    /\ tabId \in HostOpenTabs(host)
    /\ LET k == HostWindowOf(host, tabId)
           window == host.windows[k]
           i == PositionIn(window.tabs, tabId)
       IN  /\ toIndex < Len(window.tabs)
           /\ toIndex # i - 1
           /\ HostStep(
                [host EXCEPT !.windows[k].tabs = Splice(RemoveAt(@, i), toIndex, tabId)],
                <<[kind |-> "tabs.onMoved", tabId |-> tabId, windowId |-> window.id,
                   fromIndex |-> i - 1, toIndex |-> toIndex]>>)

\* a tab moves to another open window; a window left empty closes
Host_MoveToWindow(tabId, newWindowId, newPosition) ==
    /\ tabId \in HostOpenTabs(host)
    /\ newWindowId \in HostOpenWindows(host)
    /\ LET k == HostWindowOf(host, tabId)
           window == host.windows[k]
           i == PositionIn(window.tabs, tabId)
           n == HostWindowAt(host, newWindowId)
           emptied == Len(window.tabs) = 1
           moved == [host EXCEPT
                        !.windows[k].tabs = RemoveAt(@, i),
                        !.windows[k].active =
                            IF @ = tabId /\ ~emptied
                            THEN NextActive(window.tabs, i) ELSE @,
                        !.windows[n].tabs = Splice(@, newPosition, tabId)]
       IN  /\ window.id # newWindowId
           /\ newPosition <= Len(host.windows[n].tabs)
           /\ HostStep(
                IF emptied THEN HostWithoutWindow(moved, window.id) ELSE moved,
                <<[kind |-> "tabs.onDetached", tabId |-> tabId,
                   oldWindowId |-> window.id]>> \o
                (IF window.active = tabId /\ ~emptied
                 THEN <<[kind |-> "tabs.onActivated",
                         tabId |-> NextActive(window.tabs, i), windowId |-> window.id]>>
                 ELSE <<>>) \o
                <<[kind |-> "tabs.onAttached", tabId |-> tabId,
                   newWindowId |-> newWindowId, newPosition |-> newPosition]>> \o
                (IF emptied THEN WindowGoneEvents(moved, window.id) ELSE <<>>))

\* the user selects another tab of a window
Host_Activate(tabId) ==
    /\ tabId \in HostOpenTabs(host)
    /\ LET k == HostWindowOf(host, tabId)
       IN  /\ host.windows[k].active # tabId
           /\ HostStep([host EXCEPT !.windows[k].active = tabId],
                       <<[kind |-> "tabs.onActivated", tabId |-> tabId,
                          windowId |-> host.windows[k].id]>>)

\* the focus moves to another window, or away from the browser
Host_Focus(windowId) ==
    /\ windowId \in HostOpenWindows(host) \cup {WINDOW_ID_NONE}
    /\ windowId # host.focused
    /\ HostStep([host EXCEPT !.focused = windowId],
                <<[kind |-> "windows.onFocusChanged", windowId |-> windowId]>>)

\* a tab changes: its title, or a field the model does not carry
Host_Update(tabId, changeInfo, title) ==
    /\ tabId \in HostOpenTabs(host)
    /\ IF "title" \in changeInfo THEN title # host.title[tabId]
       ELSE title = host.title[tabId]
    /\ LET h == [host EXCEPT !.title[tabId] = title]
       IN  HostStep(h, <<[kind |-> "tabs.onUpdated", tabId |-> tabId,
                          changeInfo |-> changeInfo, tab |-> HostTab(h, tabId)]>>)

\* =====================================================================
\* The service worker mirroring the host
\* =====================================================================

Init ==
    /\ now = 1
    /\ host = HostInit
    /\ storage = EmptyStorage
    /\ Constructed
    /\ NoPanel
    /\ NoPins
    /\ NoStartup

\* initialize() of the service worker, one resolved await at a time; the seed
\* query answers with the active tab of the focused window
Boot ==
    \/ StorageLoaded
    \/ EngineSynced
    \/ Seeded(HostActiveTab(host, host.focused))

Next ==
    \/ Tick
    \/ Boot
    \/ \E win \in WinIds, i \in Indexes, active \in BOOLEAN : Host_OpenTab(win, i, active)
    \/ \E reportedFocused \in BOOLEAN : Host_OpenWindow(reportedFocused)
    \/ \E t \in TabIds : Host_CloseTab(t)
    \/ \E t \in TabIds, i \in Indexes : Host_MoveTab(t, i)
    \/ \E t \in TabIds, win \in WinIds, i \in Indexes : Host_MoveToWindow(t, win, i)
    \/ \E t \in TabIds : Host_Activate(t)
    \/ \E win \in WinIds \cup {WINDOW_ID_NONE} : Host_Focus(win)
    \/ TabCreated
    \/ TabRemoved
    \/ TabActivated
    \/ TabMoved
    \/ TabAttached
    \/ TabDetached
    \/ WindowCreated
    \/ WindowRemoved
    \/ WindowFocusChanged
    \/ FocusQueryResolved

Spec == Init /\ [][Next]_vars

\* =====================================================================
\* Notifications with ids the store does not hold, and the deltas of an event
\* =====================================================================

TabNotifications ==
    {"tabs.onRemoved", "tabs.onMoved", "tabs.onActivated", "tabs.onAttached",
     "tabs.onDetached"}

\* the window id a tab notification names
NotifiedWindow(e) ==
    IF e.kind = "tabs.onAttached" THEN e.newWindowId
    ELSE IF e.kind = "tabs.onDetached" THEN e.oldWindowId
    ELSE e.windowId

\* this step runs the listeners of the notification at the head of the queue
Handling == events # <<>> /\ events' = Tail(events)

\* C9: a removed, moved, activated, attached or detached notification whose tab
\* id is not in the store, or whose window id is not in the store, leaves tabs,
\* windows, activeTabId, activeWindowId and lastUpdated as they were and
\* broadcasts nothing.
C9_UnknownIdIsSilentNoOp ==
    [][(/\ Handling
        /\ Head(events).kind \in TabNotifications
        /\ \/ ~MapHas(state.tabs, Head(events).tabId)
           \/ ~MapHas(state.windows, NotifiedWindow(Head(events))))
       => (state' = state /\ sent' = <<>>)]_vars

\* the delta type that matches a host event; attach and detach have none of
\* their own in the message union, any one delta counts for them
DeltaOf ==
    [x \in {"tabs.onCreated", "tabs.onRemoved", "debounce", "tabs.onMoved",
            "tabs.onActivated", "windows.onCreated", "windows.onRemoved",
            "windows.onFocusChanged"} |->
        CASE x = "tabs.onCreated" -> "TAB_CREATED"
          [] x = "tabs.onRemoved" -> "TAB_REMOVED"
          [] x = "debounce" -> "TAB_UPDATED"
          [] x = "tabs.onMoved" -> "TAB_MOVED"
          [] x = "tabs.onActivated" -> "TAB_ACTIVATED"
          [] x = "windows.onCreated" -> "WINDOW_CREATED"
          [] x = "windows.onRemoved" -> "WINDOW_REMOVED"
          [] x = "windows.onFocusChanged" -> "WINDOW_FOCUSED"]

HostEvents == DOMAIN DeltaOf \cup {"tabs.onAttached", "tabs.onDetached"}

\* the last step handled a host event and wrote the store; a notification about
\* a tab counts when the store held the tab
AcceptedHostEvent ==
    /\ last.op \in HostEvents
    /\ last.accepted
    /\ last.op \in TabNotifications \cup {"debounce"} => last.knownTab

\* C10: every host event whose handling wrote the store is followed by exactly
\* one delta of its type: the broadcast of the step is not empty, holds no type
\* twice, and holds the event's own type when it has one.
C10_OneDeltaPerAcceptedEvent ==
    AcceptedHostEvent =>
        /\ sent # <<>>
        /\ \A i, j \in 1..Len(sent) : sent[i].type = sent[j].type => i = j
        /\ last.op \in DOMAIN DeltaOf =>
                \E i \in 1..Len(sent) : sent[i].type = DeltaOf[last.op]

\* =====================================================================
\* Bursts of chrome.tabs.onUpdated notifications and the debounce timer
\* =====================================================================

NextDebounce ==
    \/ Boot
    \/ \E i \in Indexes : Host_OpenTab(1, i, FALSE)
    \/ \E t \in TabIds : Host_CloseTab(t)
    \/ \E t \in TabIds, changeInfo \in ChangeInfos, title \in Titles :
           Host_Update(t, changeInfo, title)
    \/ TabCreated
    \/ TabRemoved
    \/ TabUpdated
    \/ TabActivated
    \/ WindowRemoved
    \/ WindowFocusChanged
    \/ \E q \in timeouts : DebounceFired(q)

SpecDebounce == Init /\ [][NextDebounce]_vars

\* the step is the debounce callback of a burst
Flushing == last' # last /\ last'.op = "debounce"

\* the step is the onUpdated listener
Notified == Dispatched("tabs.onUpdated") /\ events' = Tail(events)

hasMeaningfulChange(changeInfo) == \E key \in meaningfulChanges : key \in changeInfo

\* the tab the flush of a burst stores and broadcasts: the last notification's tab
\* with the derived fields the store had for that id
FlushedTab(tabId, tab) ==
    ExtendedTab(tab,
        IF MapHas(state.tabs, tabId) THEN MapGet(state.tabs, tabId).lastActiveAt
        ELSE Undefined,
        IF MapHas(state.tabs, tabId) THEN MapGet(state.tabs, tabId).spaceId
        ELSE UndefinedSpace)

\* C2 as stated: the flush of every burst of N >= 1 update notifications for one
\* tab mutates the store once and broadcasts at most one TAB_UPDATED, with the
\* last notification's tab
C2_BurstAppliedOnce ==
    (last.op = "debounce" /\ last.burst.size >= 1) =>
        /\ last.accepted
        /\ Len(sent) <= 1
        /\ \A i \in 1..Len(sent) :
               sent[i].type = "TAB_UPDATED" /\ sent[i].tab.title = last.burst.tab.title
        /\ MapHas(state.tabs, last.tabId)
        /\ MapGet(state.tabs, last.tabId).title = last.burst.tab.title

\* C2 amended: the notifications of a burst change nothing in the store and
\* broadcast nothing; the one timer of the burst fires once, and it stores and
\* broadcasts (one TAB_UPDATED) the last notification's tab exactly when the last
\* notification's change-info has an allow-listed field; otherwise the store is
\* left as it was and nothing is broadcast
C2_BurstFlushedOnceIfMeaningful ==
    [][ /\ Notified => (state' = state /\ sent' = <<>>)
        /\ Flushing =>
            LET b == last'.burst
                tabId == last'.tabId
            IN  /\ b.size >= 1
                /\ updateDebounceTimers[tabId] # NULL
                /\ \A q \in timeouts' : q.tabId # tabId
                /\ IF hasMeaningfulChange(b.changeInfo)
                   THEN /\ last'.accepted
                        /\ sent' = <<[type |-> "TAB_UPDATED",
                                      tab |-> FlushedTab(tabId, b.tab)]>>
                        /\ MapGet(state'.tabs, tabId) = FlushedTab(tabId, b.tab)
                        /\ state'.tabs = MapSet(state.tabs, FlushedTab(tabId, b.tab))
                        /\ state'.windows = state.windows
                   ELSE /\ ~last'.accepted
                        /\ state' = state
                        /\ sent' = <<>>
      ]_vars

\* a burst of at least two notifications has been flushed into the store
C2_BurstOfTwoFlushed ==
    /\ last.op = "debounce"
    /\ last.burst.size >= 2
    /\ last.accepted
    /\ sent # <<>>

\* =====================================================================
\* Reads of the serialized view between mutations of the store
\* =====================================================================

NextCache ==
    \/ Tick
    \/ Boot
    \/ GetState
    \/ (phase = "ready" /\ \E win \in WinIds, i \in Indexes : Host_OpenTab(win, i, FALSE))
    \/ (phase = "ready" /\ Host_OpenWindow(FALSE))
    \/ (phase = "ready" /\ \E t \in TabIds : Host_CloseTab(t))
    \/ (phase = "ready" /\ \E t \in TabIds, i \in Indexes : Host_MoveTab(t, i))
    \/ (phase = "ready" /\ \E t \in TabIds, win \in WinIds, i \in Indexes :
                               Host_MoveToWindow(t, win, i))
    \/ (phase = "ready" /\ \E t \in TabIds : Host_Activate(t))
    \/ (phase = "ready" /\ \E title \in Titles : Host_Update(1, {"title"}, title))
    \/ TabCreated
    \/ TabRemoved
    \/ TabUpdated
    \/ TabActivated
    \/ TabMoved
    \/ TabAttached
    \/ TabDetached
    \/ WindowCreated
    \/ WindowRemoved
    \/ WindowFocusChanged
    \/ FocusQueryResolved
    \/ \E q \in timeouts : DebounceFired(q)

SpecCache == Init /\ [][NextCache]_vars

\* C3: a read of getSerializedState() with no accepted mutation since the read
\* before it returns the object that read returned (nothing was built in
\* between); a read after an accepted mutation returns an object built since the
\* read before it; and either way the view's tabs, windows, activeTabId and
\* activeWindowId are the store's, also when the mutation wrote the same
\* wall-clock value to lastUpdated
C3_CacheFresh ==
    last.op = "GET_STATE" =>
        /\ last.view.tabs = state.tabs
        /\ last.view.windows = state.windows
        /\ last.view.activeTabId = state.activeTabId
        /\ last.view.activeWindowId = state.activeWindowId
        /\ last.mutated => last.rebuilt
        /\ ~last.mutated => ~last.rebuilt

\* a read after mutations that all wrote the wall-clock value the store was
\* constructed with
C3_ReadAfterSameClockMutation ==
    /\ last.op = "GET_STATE"
    /\ last.mutated
    /\ phase = "ready"
    /\ now = 1
    /\ state.lastUpdated = 1
    /\ Len(state.tabs) >= 2

\* =====================================================================
\* Full resync from a host snapshot
\* =====================================================================

MaxStrip == 2
MaxSnapshotWindows == 2

\* tab strips a snapshot can report: ids are unique, an entry may lack its id
SnapshotStrips ==
    {s \in UNION {[1..n -> TabIds \cup {UndefinedId}] : n \in 0..MaxStrip} :
        \A i, j \in 1..Len(s) : (i # j /\ s[i] # UndefinedId) => s[i] # s[j]}

\* one window of a snapshot: its tabs carry its id and their position
SnapshotWindow(id, focused, strip, activeAt) ==
    [id |-> id, focused |-> focused,
     tabs |-> [i \in 1..Len(strip) |->
                [id |-> strip[i], windowId |-> id, index |-> i - 1, title |-> 0,
                 active |-> (i = activeAt)]]]

\* the windows a snapshot can report; a window without an id holds no tab with one
SnapshotWindows ==
    {SnapshotWindow(id, focused, strip, activeAt) :
        id \in WinIds \cup {UndefinedId}, focused \in BOOLEAN,
        strip \in SnapshotStrips, activeAt \in {1}}

WellFormedWindow(window) ==
    window.id = UndefinedId => \A i \in 1..Len(window.tabs) : window.tabs[i].id = UndefinedId

\* answers of chrome.windows.getAll({ populate: true }): window ids and tab ids
\* are unique and at most one window is focused
Snapshots ==
    {ws \in UNION {[1..n -> SnapshotWindows] : n \in 1..MaxSnapshotWindows} :
        /\ \A k \in 1..Len(ws) : WellFormedWindow(ws[k])
        /\ \A k, l \in 1..Len(ws) :
              k # l =>
                /\ ws[k].id # UndefinedId => ws[k].id # ws[l].id
                /\ ~(ws[k].focused /\ ws[l].focused)
                /\ \A i \in 1..Len(ws[k].tabs), j \in 1..Len(ws[l].tabs) :
                      ws[k].tabs[i].id # UndefinedId => ws[k].tabs[i].id # ws[l].tabs[j].id}

\* the answers in which every window and every tab has its id
CompleteSnapshots ==
    {ws \in Snapshots :
        \A k \in 1..Len(ws) :
            /\ ws[k].id # UndefinedId
            /\ \A i \in 1..Len(ws[k].tabs) : ws[k].tabs[i].id # UndefinedId}

\* the service worker has loaded an empty storage and called tabEngine.initialize();
\* a second initialize() (chrome.runtime.onStartup) may have started its own
\* chrome.windows.getAll before the first one resolved
InitSync ==
    /\ now = 1
    /\ host = HostInit
    /\ storage = EmptyStorage
    /\ state = [tabs |-> <<>>, windows |-> <<>>, activeTabId |-> NULL,
                activeWindowId |-> NULL, lastUpdated |-> now]
    /\ updateDebounceTimers = [t \in TabIds |-> NULL]
    /\ timeouts = {}
    /\ serializedStateCache = <<>>
    /\ cacheLastUpdated = 0
    /\ spaces = <<DEFAULT_SPACE>>
    /\ tabMetadata = EmptyMetadata
    /\ saveDebounceTimer = FALSE
    /\ uiActiveSpaceId = DEFAULT_SPACE_ID
    /\ phase = "sync"
    /\ sent = <<>>
    /\ last = [op |-> "StateManager.initialize"]
    /\ burst = [t \in TabIds |-> NoBurst]
    /\ mutatedSinceRead = TRUE
    /\ rebuiltSinceRead = FALSE
    /\ focusQueries = <<>>
    /\ \/ \E first \in Snapshots : getAllResults = <<first>>
       \/ \E first \in CompleteSnapshots, second \in Snapshots :
              getAllResults = <<first, second>>
    /\ events = <<>>
    /\ NoPanel
    /\ NoPins
    /\ NoStartup

\* the syncWithChrome of a second initialize() resumes with its own answer
Resynced ==
    /\ phase = "seed"
    /\ getAllResults # <<>>
    /\ Commit(syncWithChrome(World, Head(getAllResults)))
    /\ getAllResults' = Tail(getAllResults)
    /\ last' = [op |-> "syncWithChrome", windows |-> Head(getAllResults),
                before |-> MapKeys(state.tabs)]
    /\ UNCHANGED <<events, phase, burst, focusQueries>>
    /\ LoopFrame

NextSync ==
    \/ EngineSynced
    \/ Resynced

SpecSync == InitSync /\ [][NextSync]_vars

\* the windows of a snapshot that have an id, and their tabs that have one
ReportedWindows(windows) == SelectSeq(windows, LAMBDA window : window.id # UndefinedId)

ReportedTabs(window) == SelectSeq(window.tabs, LAMBDA tab : tab.id # UndefinedId)

ReportedTriples(windows) ==
    UNION {{<<tab.id, tab.windowId, tab.index>> : tab \in Range(ReportedTabs(window))} :
              window \in Range(ReportedWindows(windows))}

\* C4: when syncWithChrome has completed, getAllTabs() holds exactly one tab per
\* (id, windowId, index) the snapshot reported (entries without an id skipped),
\* the store holds exactly the reported windows, and each window's tabIds are its
\* reported tab ids in reported order
C4_ResyncMatchesSnapshot ==
    last.op = "syncWithChrome" =>
        LET reported == ReportedWindows(last.windows)
            all == getAllTabs(World)
        IN  /\ {<<all[i].id, all[i].windowId, all[i].index>> : i \in 1..Len(all)}
                  = ReportedTriples(last.windows)
            /\ Len(all) = Cardinality(ReportedTriples(last.windows))
            /\ MapKeys(state.windows) = {reported[k].id : k \in 1..Len(reported)}
            /\ Len(state.windows) = Len(reported)
            /\ \A k \in 1..Len(reported) :
                  MapGet(state.windows, reported[k].id).tabIds
                      = [i \in 1..Len(ReportedTabs(reported[k])) |->
                            ReportedTabs(reported[k])[i].id]

\* a second resync has run over a store that held a tab and a window the second
\* snapshot no longer reports
C4_ResyncOverStaleStore ==
    /\ last.op = "syncWithChrome"
    /\ phase = "seed"
    /\ getAllResults = <<>>
    /\ last.before = {1}
    /\ MapKeys(state.tabs) = {2}
    /\ MapKeys(state.windows) = {2}
    /\ \E k \in 1..Len(last.windows) : last.windows[k].id = UndefinedId

\* =====================================================================
\* The side panel's reconciler (sidepanel/App.tsx)
\* =====================================================================

MaxReceived == 3

\* tabs as the broadcasts carry them; the reconciler reads their id and index
PanelTabs ==
    {ExtendedTab([id |-> id, windowId |-> 1, index |-> index, title |-> 0],
                 Undefined, UndefinedSpace) :
        id \in TabIds, index \in Indexes}

\* tab lists of a STATE_SYNC: the values of the engine's tab map, one per id
PanelTabLists ==
    {s \in UNION {[1..n -> PanelTabs] : n \in 0..MaxTab} :
        \A i, j \in 1..Len(s) : i # j => s[i].id # s[j].id}

\* Array.prototype.findIndex(t => t.id === tabId), -1 when no element matches
FindIndex(list, tabId) ==
    IF \E i \in 1..Len(list) : list[i].id = tabId
    THEN (CHOOSE i \in 1..Len(list) :
             list[i].id = tabId /\ \A j \in 1..(i - 1) : list[j].id # tabId) - 1
    ELSE -1

\* Array.prototype.splice(start, 1): a negative start counts from the end
SpliceOut(list, start) ==
    LET k == IF start < 0 THEN (IF Len(list) + start < 0 THEN 0 ELSE Len(list) + start)
             ELSE Min(start, Len(list))
    IN  SubSeq(list, 1, k) \o SubSeq(list, k + 2, Len(list))

Reconcile_STATE_SYNC(prev, list) == SortByIndex(list)

\* TAB_CREATED handled without the test for an entry with the same id
Reconcile_TAB_CREATED_NoTest(prev, tab) == SortByIndex(Append(prev, tab))

Reconcile_TAB_CREATED(prev, tab) ==
    IF \E i \in 1..Len(prev) : prev[i].id = tab.id THEN prev
    ELSE SortByIndex(Append(prev, tab))

\* TAB_REMOVED handled by findIndex and splice, without a test for -1
Reconcile_TAB_REMOVED_Splice(prev, tabId) == SpliceOut(prev, FindIndex(prev, tabId))

Reconcile_TAB_REMOVED(prev, tabId) == SelectSeq(prev, LAMBDA t : t.id # tabId)

\* TAB_UPDATED handled as an upsert: a tab the list lacks is appended
Reconcile_TAB_UPDATED_Upsert(prev, tab) ==
    IF \E i \in 1..Len(prev) : prev[i].id = tab.id
    THEN [i \in 1..Len(prev) |-> IF prev[i].id = tab.id THEN tab ELSE prev[i]]
    ELSE Append(prev, tab)

\* TAB_UPDATED: prev.map(t => t.id === message.tab.id ? message.tab : t)
Reconcile_TAB_UPDATED(prev, tab) ==
    [i \in 1..Len(prev) |-> IF prev[i].id = tab.id THEN tab ELSE prev[i]]

\* TAB_MOVED handled without the final map that renumbers the indices
Reconcile_TAB_MOVED_NoRenumber(prev, tabId, toIndex) ==
    LET tabIndex == FindIndex(prev, tabId)
    IN  IF tabIndex # -1
        THEN LET tab == [prev[tabIndex + 1] EXCEPT !.index = toIndex]
             IN  Splice(SpliceOut(prev, tabIndex), toIndex, tab)
        ELSE prev

Reconcile_TAB_MOVED(prev, tabId, toIndex) ==
    LET tabIndex == FindIndex(prev, tabId)
    IN  IF tabIndex # -1
        THEN LET tab == [prev[tabIndex + 1] EXCEPT !.index = toIndex]
                 updated == Splice(SpliceOut(prev, tabIndex), toIndex, tab)
             IN  [i \in 1..Len(updated) |-> [updated[i] EXCEPT !.index = i - 1]]
        ELSE prev

\* the messages the listener has handled, the last MaxReceived of them
Remember(message) ==
    LET all == Append(received, message)
    IN  IF Len(all) > MaxReceived THEN Tail(all) ELSE all

\* the onMessage listener handles one broadcast
Receive(message, newTabs, newActiveTabId) ==
    /\ tabs' = newTabs
    /\ activeTabId' = newActiveTabId
    /\ received' = Remember(message)
    /\ last' = [op |-> message.type, message |-> message, before |-> tabs]
    /\ UNCHANGED <<now, host, events, getAllResults, progVars, uiActiveSpaceId, phase,
                   burst, focusQueries, pinVars, isLoading, panelStep, startupVars>>

Receive_STATE_SYNC(list) ==
    Receive([type |-> "STATE_SYNC", tabIds |-> [i \in 1..Len(list) |-> list[i].id]],
            Reconcile_STATE_SYNC(tabs, list), activeTabId)

Receive_TAB_CREATED(tab) ==
    Receive([type |-> "TAB_CREATED", tabId |-> tab.id],
            Reconcile_TAB_CREATED(tabs, tab), activeTabId)

Receive_TAB_REMOVED(tabId) ==
    Receive([type |-> "TAB_REMOVED", tabId |-> tabId],
            Reconcile_TAB_REMOVED(tabs, tabId), activeTabId)

Receive_TAB_UPDATED(tab) ==
    Receive([type |-> "TAB_UPDATED", tabId |-> tab.id],
            Reconcile_TAB_UPDATED(tabs, tab), activeTabId)

Receive_TAB_MOVED(tabId, toIndex) ==
    /\ tabs' = Reconcile_TAB_MOVED(tabs, tabId, toIndex)
    /\ received' = Remember([type |-> "TAB_MOVED", tabId |-> tabId])
    /\ last' = [op |-> "TAB_MOVED",
                message |-> [type |-> "TAB_MOVED", tabId |-> tabId, toIndex |-> toIndex],
                before |-> tabs]
    /\ UNCHANGED <<now, host, events, getAllResults, progVars, uiActiveSpaceId, phase,
                   burst, focusQueries, pinVars, activeTabId, isLoading, panelStep,
                   startupVars>>

Receive_TAB_ACTIVATED(tabId) ==
    Receive([type |-> "TAB_ACTIVATED", tabId |-> tabId], tabs, tabId)

NextObserver ==
    \/ \E list \in PanelTabLists : Receive_STATE_SYNC(list)
    \/ \E tab \in PanelTabs : Receive_TAB_CREATED(tab)
    \/ \E t \in TabIds : Receive_TAB_REMOVED(t)
    \/ \E tab \in PanelTabs : Receive_TAB_UPDATED(tab)
    \/ \E t \in TabIds, i \in Indexes : Receive_TAB_MOVED(t, i)
    \/ \E t \in TabIds : Receive_TAB_ACTIVATED(t)

SpecObserver == Init /\ [][NextObserver]_vars

PanelIds(list) == {list[i].id : i \in 1..Len(list)}

\* C5: after the reconciler has applied TAB_REMOVED for an id, applying it again
\* gives the same tab list; TAB_REMOVED for an id that was not in the list leaves
\* the list as it was; and a snapshot of tab 1 alone followed by TAB_REMOVED(1)
\* gives the empty list, which a second TAB_REMOVED(1) leaves empty
C5_RemovalIdempotent ==
    /\ last.op = "TAB_REMOVED" =>
          /\ Reconcile_TAB_REMOVED(tabs, last.message.tabId) = tabs
          /\ last.message.tabId \notin PanelIds(last.before) => tabs = last.before
          /\ tabs = SelectSeq(last.before, LAMBDA t : t \in Range(tabs))
          /\ PanelIds(tabs) = PanelIds(last.before) \ {last.message.tabId}
    /\ \A n \in 1..Len(received) :
          (/\ received[n] = [type |-> "STATE_SYNC", tabIds |-> <<1>>]
           /\ n < Len(received)
           /\ \A k \in (n + 1)..Len(received) :
                 received[k] = [type |-> "TAB_REMOVED", tabId |-> 1])
          => tabs = <<>>

\* the snapshot of tab 1 alone, TAB_REMOVED(1), and TAB_REMOVED(1) again
C5_SnapshotRemovedTwice ==
    /\ received = <<[type |-> "STATE_SYNC", tabIds |-> <<1>>],
                    [type |-> "TAB_REMOVED", tabId |-> 1],
                    [type |-> "TAB_REMOVED", tabId |-> 1]>>
    /\ last.op = "TAB_REMOVED"
    /\ last.before = <<>>

\* =====================================================================
\* Spaces: assignment, creation and deletion, across restarts of the worker
\* =====================================================================

MaxSpaces == 3

\* space ids a message can carry: the default, the 'all' view, an id addSpace makes
SpaceInputs == {DEFAULT_SPACE_ID, ALL_TABS_ID, SpaceName(1)}

MessageFrame ==
    UNCHANGED <<now, host, events, getAllResults, phase, burst, focusQueries,
                pinVars, panelVars, startupVars>>

\* handleMessage, case ASSIGN_TAB_TO_SPACE
Message_ASSIGN_TAB_TO_SPACE(tabId, spaceId) ==
    /\ Commit(Handle_ASSIGN_TAB_TO_SPACE(World, tabId, spaceId))
    /\ last' = [op |-> "ASSIGN_TAB_TO_SPACE", tabId |-> tabId, spaceId |-> spaceId,
                ret |-> assignTabToSpace(World, tabId, spaceId).ret,
                hadMetadata |-> tabId \in DOMAIN tabMetadata]
    /\ UNCHANGED uiActiveSpaceId
    /\ MessageFrame

\* handleMessage, case CREATE_SPACE
Message_CREATE_SPACE ==
    /\ Len(spaces) < MaxSpaces
    /\ Commit(addSpace(World).w)
    /\ last' = [op |-> "CREATE_SPACE", ret |-> addSpace(World).ret.id]
    /\ UNCHANGED uiActiveSpaceId
    /\ MessageFrame

\* handleMessage, case DELETE_SPACE
Message_DELETE_SPACE(spaceId) ==
    /\ Commit(Handle_DELETE_SPACE(World, spaceId))
    /\ last' = [op |-> "DELETE_SPACE", spaceId |-> spaceId,
                ret |-> removeSpace(World, spaceId).ret,
                existed |-> FindSpace(spaces, spaceId) # 0,
                members |-> IF FindSpace(spaces, spaceId) # 0
                            THEN spaces[FindSpace(spaces, spaceId)].tabIds ELSE <<>>]
    /\ UNCHANGED uiActiveSpaceId
    /\ MessageFrame

\* handleMessage, case SET_ACTIVE_SPACE
Message_SET_ACTIVE_SPACE(spaceId) ==
    /\ uiActiveSpaceId # spaceId
    /\ uiActiveSpaceId' = spaceId
    /\ last' = [op |-> "SET_ACTIVE_SPACE", spaceId |-> spaceId]
    /\ sent' = <<>>
    /\ UNCHANGED <<state, updateDebounceTimers, timeouts, serializedStateCache,
                   cacheLastUpdated, spaces, tabMetadata, saveDebounceTimer, storage,
                   mutatedSinceRead, rebuiltSinceRead>>
    /\ MessageFrame

\* the idle service worker is terminated and started again: its module is
\* evaluated anew, chrome.storage and the browser are as they were
Restart ==
    /\ phase = "ready"
    /\ events = <<>>
    /\ focusQueries = <<>>
    /\ state' = [tabs |-> <<>>, windows |-> <<>>, activeTabId |-> NULL,
                 activeWindowId |-> NULL, lastUpdated |-> now]
    /\ updateDebounceTimers' = [t \in TabIds |-> NULL]
    /\ timeouts' = {}
    /\ serializedStateCache' = <<>>
    /\ cacheLastUpdated' = 0
    /\ spaces' = <<DEFAULT_SPACE>>
    /\ tabMetadata' = EmptyMetadata
    /\ saveDebounceTimer' = FALSE
    /\ uiActiveSpaceId' = DEFAULT_SPACE_ID
    /\ phase' = "load"
    /\ sent' = <<>>
    /\ last' = [op |-> "load"]
    /\ burst' = [t \in TabIds |-> NoBurst]
    /\ mutatedSinceRead' = TRUE
    /\ rebuiltSinceRead' = FALSE
    /\ UNCHANGED <<now, host, storage, events, getAllResults, focusQueries,
                   pinVars, panelVars, startupVars>>

NextSpaces ==
    \/ Boot
    \/ Restart
    \/ SaveFired
    \/ Host_OpenTab(1, 1, FALSE)
    \/ \E t \in TabIds : Host_CloseTab(t)
    \/ TabCreated
    \/ TabRemoved
    \/ TabActivated
    \/ WindowRemoved
    \/ WindowFocusChanged
    \/ (phase = "ready" /\ \E t \in TabIds, s \in SpaceInputs :
                               Message_ASSIGN_TAB_TO_SPACE(t, s))
    \/ (phase = "ready" /\ Message_CREATE_SPACE)
    \/ (phase = "ready" /\ \E s \in {DEFAULT_SPACE_ID, SpaceName(1)} :
                               Message_DELETE_SPACE(s))
    \/ (phase = "ready" /\ \E s \in SpaceInputs : Message_SET_ACTIVE_SPACE(s))

SpecSpaces == Init /\ [][NextSpaces]_vars

\* the member lists of the spaces, and the tabs the store holds
Members(n) == Range(spaces[n].tabIds)

\* C1: in every reachable state in which the service worker has finished
\* initialize() and has handled every notification dispatched to it, the spaces'
\* member lists are pairwise disjoint and their union is the set of tab ids in
\* the store
C1_SpacesPartitionOpenTabs ==
    (phase = "ready" /\ events = <<>> /\ focusQueries = <<>>) =>
    /\ \A m, n \in 1..Len(spaces) : m # n => Members(m) \cap Members(n) = {}
    /\ UNION {Members(n) : n \in 1..Len(spaces)} = MapKeys(state.tabs)

\* the space id assignTabToSpace is to use for a requested id
EffectiveSpace(spaceId) ==
    IF FindSpace(spaces, spaceId) # 0 THEN spaceId ELSE DEFAULT_SPACE_ID

\* C7: after assignTabToSpace(t, w) has returned e, e is w when w is an existing
\* space and 'default' otherwise, t is in the member list of e and of no other
\* space, and the metadata of t has spaceId e, whatever t's state was before
C7_AssignedToEffectiveSpace ==
    last.op = "ASSIGN_TAB_TO_SPACE" =>
        /\ last.ret = EffectiveSpace(last.spaceId)
        /\ \A n \in 1..Len(spaces) :
              last.tabId \in Members(n) <=> spaces[n].id = last.ret
        /\ \E n \in 1..Len(spaces) : spaces[n].id = last.ret
        /\ MetadataOf(tabMetadata, last.tabId).spaceId = last.ret

\* C6: after DELETE_SPACE for an existing non-default space W, W is gone, every
\* former member of W is in the default space's member list, has spaceId
\* 'default' in its metadata and, where the store holds the tab, in the store,
\* and removeSpace has returned exactly the former members, in their order
C6_DeletedSpaceMembersMovedToDefault ==
    (last.op = "DELETE_SPACE" /\ last.existed /\ last.spaceId # DEFAULT_SPACE_ID) =>
        /\ FindSpace(spaces, last.spaceId) = 0
        /\ FindSpace(spaces, DEFAULT_SPACE_ID) # 0
        /\ last.ret = last.members
        /\ \A t \in Range(last.members) :
              /\ t \in Members(FindSpace(spaces, DEFAULT_SPACE_ID))
              /\ MetadataOf(tabMetadata, t).spaceId = DEFAULT_SPACE_ID
              /\ MapHas(state.tabs, t) =>
                    MapGet(state.tabs, t).spaceId = DEFAULT_SPACE_ID

\* =====================================================================
\* PIN_TAB and the limit of pinned tabs
\* =====================================================================

MaxPinRequests == 1

\* the browser has one tab more than may be pinned
PinTabIds == 1..(PinLimit + 1)

InitPin ==
    /\ now = 1
    /\ host = [windows |-> <<[id |-> 1, active |-> 1,
                              tabs |-> [i \in PinTabIds |-> i]]>>,
               focused |-> 1, title |-> [t \in PinTabIds |-> 0],
               tabsOpened |-> PinLimit + 1, windowsOpened |-> 1]
    /\ storage = EmptyStorage
    /\ Constructed
    /\ NoPanel
    /\ NoPins
    /\ NoStartup

\* pinnedCount > 6: a seventh tab gets through
PinLimitReached_OffByOne(pinnedCount) == pinnedCount > PinLimit

\* pinnedCount >= 6
PinLimitReached(pinnedCount) == pinnedCount >= PinLimit

PinFrame ==
    UNCHANGED <<now, host, events, getAllResults, progVars, uiActiveSpaceId, phase,
                burst, focusQueries, panelVars, startupVars, requests>>

\* handleMessage, case PIN_TAB, up to its first await: the query when pinning,
\* the update when unpinning
Message_PIN_TAB(id, tabId, pinned) ==
    /\ \A r \in pinRequests : r.id # id
    /\ pinRequests' = pinRequests \cup
          {[id |-> id, tabId |-> tabId, pinned |-> pinned,
            awaiting |-> IF pinned THEN "query" ELSE "update"]}
    /\ last' = [op |-> "PIN_TAB", id |-> id, tabId |-> tabId, pinned |-> pinned]
    /\ UNCHANGED hostPinned
    /\ PinFrame

\* chrome.tabs.query({}) resolves: the limit check
PinQueryResolved(r) ==
    /\ r \in pinRequests
    /\ r.awaiting = "query"
    /\ LET pinnedCount == Cardinality(hostPinned)
       IN  IF PinLimitReached(pinnedCount)
           THEN /\ pinRequests' = pinRequests \ {r}
                /\ last' = [op |-> "PIN_TAB.query", id |-> r.id, tabId |-> r.tabId,
                            pinnedCount |-> pinnedCount,
                            response |-> [success |-> FALSE,
                                          error |-> "Maximum 6 pinned tabs allowed"]]
           ELSE /\ pinRequests' = (pinRequests \ {r}) \cup {[r EXCEPT !.awaiting = "update"]}
                /\ last' = [op |-> "PIN_TAB.query", id |-> r.id, tabId |-> r.tabId,
                            pinnedCount |-> pinnedCount, response |-> <<>>]
    /\ UNCHANGED hostPinned
    /\ PinFrame

\* chrome.tabs.update(tabId, { pinned }) resolves
PinUpdateResolved(r) ==
    /\ r \in pinRequests
    /\ r.awaiting = "update"
    /\ hostPinned' = IF r.pinned THEN hostPinned \cup {r.tabId} ELSE hostPinned \ {r.tabId}
    /\ pinRequests' = pinRequests \ {r}
    /\ last' = [op |-> "PIN_TAB.update", id |-> r.id, tabId |-> r.tabId,
                pinnedCount |-> Cardinality(hostPinned),
                response |-> [success |-> TRUE]]
    /\ PinFrame

\* the user pins or unpins a tab in the browser's own tab strip
Host_TogglePin(tabId) ==
    /\ hostPinned' = IF tabId \in hostPinned THEN hostPinned \ {tabId}
                     ELSE hostPinned \cup {tabId}
    /\ last' = [op |-> "host.pin", tabId |-> tabId]
    /\ UNCHANGED pinRequests
    /\ PinFrame

NextPin ==
    \/ \E id \in 1..MaxPinRequests, t \in PinTabIds, pinned \in BOOLEAN :
           Cardinality(pinRequests) < MaxPinRequests /\ Message_PIN_TAB(id, t, pinned)
    \/ \E r \in pinRequests : PinQueryResolved(r)
    \/ \E r \in pinRequests : PinUpdateResolved(r)
    \/ \E t \in PinTabIds : Host_TogglePin(t)

SpecPin == InitPin /\ [][NextPin]_vars

\* the step is the limit check of a pinning request whose query reports that the
\* limit is reached
PinRefusal ==
    /\ last' # last
    /\ last'.op = "PIN_TAB.query"
    /\ Cardinality(hostPinned) >= PinLimit

\* C8: a PIN_TAB request with pinned = true whose query reports 6 (or more)
\* pinned tabs is answered with success = false and an error text, its handler
\* ends without calling chrome.tabs.update, and the set of pinned tabs is as it was
C8_PinRefusedAtLimit ==
    [][PinRefusal =>
          /\ last'.response = [success |-> FALSE,
                               error |-> "Maximum 6 pinned tabs allowed"]
          /\ \A r \in pinRequests' : r.id # last'.id
          /\ hostPinned' = hostPinned
          /\ Cardinality(hostPinned') = last'.pinnedCount
      ]_vars

\* a request to pin the seventh tab has been refused with six tabs pinned
C8_SeventhPinRefused ==
    /\ last.op = "PIN_TAB.query"
    /\ last.pinnedCount = PinLimit
    /\ last.response # <<>>
    /\ last.tabId \notin hostPinned
    /\ Cardinality(hostPinned) = PinLimit
    /\ pinRequests = {}

\* ---------------------------------------------------------------------
\* C11: a removal drops the tab's pending debounce timer
\* ---------------------------------------------------------------------

\* the step is the onRemoved listener
Removing == Dispatched("tabs.onRemoved") /\ events' = Tail(events)

\* the removal of tab t has been processed: the host has closed it, its removed
\* notification is no longer queued, and the store does not hold it
RemovalProcessed(t) ==
    /\ EngineListening
    /\ t \in 1..host.tabsOpened
    /\ t \notin HostOpenTabs(host)
    /\ \A i \in 1..Len(events) :
           ~(events[i].kind = "tabs.onRemoved" /\ events[i].tabId = t)
    /\ ~MapHas(state.tabs, t)

UpdatedBroadcastFor(t) ==
    \E i \in 1..Len(sent') : sent'[i].type = "TAB_UPDATED" /\ sent'[i].tab.id = t

\* C11: processing the removed notification of tab t cancels the pending debounce
\* timer of t and drops it from the timer map; once the removal of t has been
\* processed no step broadcasts TAB_UPDATED for t or puts t back into the store.
C11_RemovalCancelsPendingUpdate ==
    [][/\ Removing =>
            LET t == Head(events).tabId
            IN  /\ \A q \in timeouts' : q.tabId # t
                /\ updateDebounceTimers'[t] = NULL
                /\ ~MapHas(state'.tabs, t)
       /\ \A t \in TabIds :
            RemovalProcessed(t) =>
                /\ ~MapHas(state'.tabs, t)
                /\ ~UpdatedBroadcastFor(t)
                /\ \A q \in timeouts' : q.tabId # t]_vars

\* a tab was removed while an update notification for it was waiting for its
\* timer, and the store and the timers no longer know the tab
C11_RemovedWithTimerPending ==
    /\ last.op = "tabs.onRemoved"
    /\ last.knownTab
    /\ last.pendingTimer # NULL
    /\ RemovalProcessed(last.tabId)
    /\ \A q \in timeouts : q.tabId # last.tabId

\* ---------------------------------------------------------------------
\* The side panel attaches: the mount effect queries the active tab, sends
\* SUBSCRIBE and ends the loading state; the listener is registered on mount
\* ---------------------------------------------------------------------

AttachFrame ==
    /\ last' = [op |-> "attach", before |-> tabs]
    /\ UNCHANGED <<now, host, events, getAllResults, progVars, uiActiveSpaceId, phase,
                   burst, focusQueries, pinVars, tabs, received, startupVars>>

\* chrome.tabs.query resolves with the active tab, or with none; SUBSCRIBE is sent
PanelQueryResolved(activeTab) ==
    /\ panelStep = "query"
    /\ activeTabId' = IF activeTab # UndefinedId THEN activeTab ELSE activeTabId
    /\ panelStep' = "subscribe"
    /\ UNCHANGED isLoading
    /\ AttachFrame

\* the response to SUBSCRIBE arrives, after the STATE_SYNC the handler broadcast
\* before it responded
SubscribeResolved ==
    /\ panelStep = "subscribe"
    /\ \E i \in 1..Len(received) : received[i].type = "STATE_SYNC"
    /\ isLoading' = FALSE
    /\ panelStep' = "settled"
    /\ UNCHANGED activeTabId
    /\ AttachFrame

\* an awaited call rejects: catch logs, finally ends the loading state
AttachRejected ==
    /\ panelStep \in {"query", "subscribe"}
    /\ isLoading' = FALSE
    /\ panelStep' = "settled"
    /\ UNCHANGED activeTabId
    /\ AttachFrame

\* every message the panel has handled is still in received
NextAttach ==
    \/ \E t \in TabIds \cup {UndefinedId} : PanelQueryResolved(t)
    \/ SubscribeResolved
    \/ AttachRejected
    \/ (Len(received) < MaxReceived /\ \E list \in PanelTabLists : Receive_STATE_SYNC(list))
    \/ (Len(received) < MaxReceived /\ \E tab \in PanelTabs : Receive_TAB_CREATED(tab))
    \/ (Len(received) < MaxReceived /\ \E t \in TabIds : Receive_TAB_REMOVED(t))
    \/ (Len(received) < MaxReceived /\ \E tab \in PanelTabs : Receive_TAB_UPDATED(tab))
    \/ (Len(received) < MaxReceived /\ \E t \in TabIds, i \in Indexes : Receive_TAB_MOVED(t, i))
    \/ (Len(received) < MaxReceived /\ \E t \in TabIds : Receive_TAB_ACTIVATED(t))

SpecAttach == Init /\ [][NextAttach]_vars

\* the panel has handled a STATE_SYNC since it mounted
SnapshotArrived == \E i \in 1..Len(received) : received[i].type = "STATE_SYNC"

Deltas == {"TAB_CREATED", "TAB_REMOVED", "TAB_UPDATED", "TAB_MOVED", "TAB_ACTIVATED"}

\* C12: a delta handled before the STATE_SYNC of the attachment has arrived does
\* not change the panel's tabs or active tab, and the panel is loading until the
\* snapshot has arrived.
C12_NoDeltaBeforeSnapshot ==
    /\ [](~SnapshotArrived => isLoading)
    /\ [][(~SnapshotArrived /\ last' # last /\ last'.op \in Deltas)
            => (tabs' = tabs /\ activeTabId' = activeTabId)]_vars

\* =====================================================================
\* chrome.runtime.onStartup calls initialize() while the initialize() of the
\* script's load has not resolved
\* =====================================================================

StartupFrame ==
    UNCHANGED <<now, host, events, uiActiveSpaceId, phase, burst, focusQueries,
                pinVars, panelVars, loadResults>>

\* tabEngine.initialize() as the second invocation calls it: it returns at once
\* when TabEngine.initialized is set, and asks the host for its windows otherwise
StartupEngineInitialize ==
    IF phase = "sync"
    THEN startupPhase' = "sync" /\ getAllResults' = Append(getAllResults, HostGetAll(host))
    ELSE startupPhase' = "seed" /\ UNCHANGED getAllResults

\* the onStartup listener runs before isInitialized is set and calls initialize();
\* stateManager.initialize() returns at once when StateManager.initialized is set
StartupFired ==
    /\ startupPhase = "idle"
    /\ phase # "ready"
    /\ IF phase = "load"
       THEN startupPhase' = "load" /\ UNCHANGED getAllResults
       ELSE StartupEngineInitialize
    /\ last' = [op |-> "onStartup"]
    /\ UNCHANGED <<progVars, startupListeners>>
    /\ StartupFrame

\* the second stateManager.initialize() resolves, after the first
StartupLoaded ==
    /\ startupPhase = "load"
    /\ phase # "load"
    /\ Commit(StateManager_initialize(World))
    /\ StartupEngineInitialize
    /\ last' = [op |-> "StateManager.initialize"]
    /\ UNCHANGED startupListeners
    /\ StartupFrame

\* the second syncWithChrome resumes with its own answer, after the first; the
\* engine's listeners are attached again
StartupSynced ==
    /\ startupPhase = "sync"
    /\ phase # "sync"
    /\ getAllResults # <<>>
    /\ Commit(syncWithChrome(World, Head(getAllResults)))
    /\ getAllResults' = Tail(getAllResults)
    /\ startupPhase' = "seed"
    /\ startupListeners' = [startupListeners EXCEPT !.engine = TRUE]
    /\ last' = [op |-> "syncWithChrome", windows |-> Head(getAllResults),
                before |-> MapKeys(state.tabs)]
    /\ StartupFrame

\* the rest of the second initialize() runs, after the first: the service worker's
\* listeners are registered again (the space listener of onCreated is not)
StartupSeeded(activeTab) ==
    /\ startupPhase = "seed"
    /\ phase = "ready"
    /\ Commit(ServiceWorker_seed(World, activeTab))
    /\ startupPhase' = "done"
    /\ startupListeners' = [startupListeners EXCEPT !.worker = TRUE]
    /\ last' = [op |-> "seed", tabId |-> activeTab]
    /\ UNCHANGED getAllResults
    /\ StartupFrame

\* a listener registered once or twice runs once or twice
Registered(Listener(_), w, again) == IF again THEN Listener(Listener(w)) ELSE Listener(w)

StartupEventFrame ==
    /\ events' = Tail(events)
    /\ UNCHANGED <<getAllResults, phase, burst, focusQueries, startupVars>>
    /\ UNCHANGED <<now, host, uiActiveSpaceId, pinVars, panelVars>>

\* chrome.tabs.onCreated is handled by every registered listener
StartupTabCreated ==
    /\ Dispatched("tabs.onCreated")
    /\ LET tab == Head(events).tab
           w1 == Registered(LAMBDA w : Engine_onCreated(w, tab), World,
                            startupListeners.engine)
           w2 == IF WorkerListening THEN ServiceWorker_onCreated(w1, tab) ELSE w1
       IN  Commit(w2) /\ last' = Event("tabs.onCreated", tab.id, tab.windowId, w2)
    /\ StartupEventFrame

\* chrome.tabs.onRemoved is handled by every registered listener
StartupTabRemoved ==
    /\ Dispatched("tabs.onRemoved")
    /\ LET e == Head(events)
           w1 == Registered(LAMBDA w : Engine_onRemoved(w, e.tabId, e.windowId), World,
                            startupListeners.engine)
           w2 == IF WorkerListening
                 THEN Registered(LAMBDA w : ServiceWorker_onRemoved(w, e.tabId), w1,
                                 startupListeners.worker)
                 ELSE w1
       IN  Commit(w2) /\ last' = Event("tabs.onRemoved", e.tabId, e.windowId, w2)
    /\ StartupEventFrame

\* chrome.tabs.onActivated is handled by every registered listener
StartupTabActivated ==
    /\ Dispatched("tabs.onActivated")
    /\ LET e == Head(events)
           w1 == Registered(LAMBDA w : Engine_onActivated(w, e.tabId, e.windowId), World,
                            startupListeners.engine)
           w2 == IF WorkerListening
                 THEN Registered(
                        LAMBDA w : ServiceWorker_onActivated(w, e.tabId, e.windowId),
                        w1, startupListeners.worker)
                 ELSE w1
       IN  Commit(w2) /\ last' = Event("tabs.onActivated", e.tabId, e.windowId, w2)
    /\ StartupEventFrame

\* one window whose last tab stays open; the answers of the host arrive in the
\* order of the calls, and the second snapshot arrives before the first seed query
NextStartup ==
    \/ StorageLoaded
    \/ EngineSynced
    \/ (startupPhase # "sync" /\ Seeded(HostActiveTab(host, host.focused)))
    \/ StartupFired
    \/ StartupLoaded
    \/ StartupSynced
    \/ StartupSeeded(HostActiveTab(host, host.focused))
    \/ \E i \in Indexes, active \in BOOLEAN : Host_OpenTab(1, i, active)
    \/ (Len(host.windows[1].tabs) > 1 /\ \E t \in TabIds : Host_CloseTab(t))
    \/ \E t \in TabIds : Host_Activate(t)
    \/ StartupTabCreated
    \/ StartupTabRemoved
    \/ StartupTabActivated

SpecStartup == Init /\ [][NextStartup]_vars

Count(s, type) == Cardinality({i \in 1..Len(s) : s[i].type = type})

Occurrences(s, x) == Cardinality({i \in 1..Len(s) : s[i] = x})

\* C13: a second initialize() never attaches the engine's listeners again (they are
\* attached after a resync pass only), a created or removed notification is
\* broadcast once, and a created tab is put into its window's tab list once.
C13_InitializedOnce ==
    /\ ~startupListeners.engine
    /\ last.op = "tabs.onCreated" => Count(sent, "TAB_CREATED") <= 1
    /\ last.op = "tabs.onRemoved" => Count(sent, "TAB_REMOVED") <= 1
    /\ \A i \in 1..Len(state.windows) :
           \A t \in TabIds : Occurrences(state.windows[i].tabIds, t) <= 1

\* C14: TAB_CREATED for an id the local list already holds leaves the list as it
\* was, and after any sequence of snapshots and deltas no two entries of the local
\* list have the same tab id.
C14_NoDuplicateIds ==
    /\ (last.op = "TAB_CREATED" /\ last.message.tabId \in PanelIds(last.before))
          => tabs = last.before
    /\ \A i, j \in 1..Len(tabs) : i # j => tabs[i].id # tabs[j].id

\* a snapshot with tab 1, then TAB_CREATED for tab 1 twice
C14_CreatedTwiceAfterSnapshot ==
    /\ Len(received) = 3
    /\ received[1].type = "STATE_SYNC" /\ 1 \in Range(received[1].tabIds)
    /\ received[2] = [type |-> "TAB_CREATED", tabId |-> 1]
    /\ received[3] = [type |-> "TAB_CREATED", tabId |-> 1]
    /\ last.op = "TAB_CREATED"
    /\ 1 \in PanelIds(tabs)

\* ---------------------------------------------------------------------
\* TAB_MOVED on local lists of up to MaxMoveLen tabs
\* ---------------------------------------------------------------------

MaxMoveLen == 3
MaxMoves == 2

MoveIds == 1..MaxMoveLen

\* a toIndex inside the list, at its end, and beyond it
MoveIndexes == 0..(MaxMoveLen + 1)

\* local lists as a snapshot and deltas leave them: one entry per id, any order of
\* ids, indices as the broadcasts carried them
MoveLists ==
    {s \in UNION {[1..n -> {ExtendedTab([id |-> id, windowId |-> 1, index |-> index,
                                         title |-> 0], Undefined, UndefinedSpace) :
                               id \in MoveIds, index \in {0, MaxMoveLen}}] :
                  n \in 0..MaxMoveLen} :
        \A i, j \in 1..Len(s) : i # j => s[i].id # s[j].id}

InitMove ==
    /\ now = 1
    /\ host = HostInit
    /\ storage = EmptyStorage
    /\ Constructed
    /\ tabs \in MoveLists
    /\ activeTabId = NULL /\ received = <<>>
    /\ isLoading = FALSE /\ panelStep = "settled"
    /\ NoPins
    /\ NoStartup

NextMove ==
    Len(received) < MaxMoves /\ \E t \in MoveIds, i \in MoveIndexes : Receive_TAB_MOVED(t, i)

SpecMove == InitMove /\ [][NextMove]_vars

IdsOf(list) == [i \in 1..Len(list) |-> list[i].id]

\* C15: TAB_MOVED(t, toIndex) for a t in the local list of n tabs gives a list
\* with the same tab ids, t at position min(toIndex, n - 1), the other tabs in
\* their previous relative order and the indices 0..n-1; for a t that is not in
\* the list the list is unchanged.
C15_MovedToClampedIndex ==
    last.op = "TAB_MOVED" =>
        LET before == last.before
            t == last.message.tabId
            n == Len(before)
        IN  IF t \in PanelIds(before)
            THEN /\ Len(tabs) = n
                 /\ PanelIds(tabs) = PanelIds(before)
                 /\ tabs[Min(last.message.toIndex, n - 1) + 1].id = t
                 /\ Without(IdsOf(tabs), t) = Without(IdsOf(before), t)
                 /\ \A i \in 1..n : tabs[i].index = i - 1
            ELSE tabs = before

\* the first of three tabs is moved to an index beyond the end of the list
C15_MovedBeyondTheEnd ==
    /\ last.op = "TAB_MOVED"
    /\ Len(last.before) = 3
    /\ last.before[1].id = last.message.tabId
    /\ last.message.toIndex > 2
    /\ tabs[3].id = last.message.tabId

\* C16: when the listeners of a tab-created notification have run for a tab whose
\* metadata names no space, the tab in the store has spaceId 'default', its
\* metadata names 'default', and the tab is in the member list of the default
\* space.
C16_CreatedTabJoinsDefault ==
    [][(/\ Dispatched("tabs.onCreated")
        /\ events' = Tail(events)
        /\ WorkerListening
        /\ Head(events).tab.id # UndefinedId
        /\ MetadataOf(tabMetadata, Head(events).tab.id).spaceId = UndefinedSpace)
       => LET t == Head(events).tab.id
          IN  /\ MapGet(state'.tabs, t).spaceId = DEFAULT_SPACE_ID
              /\ MetadataOf(tabMetadata', t).spaceId = DEFAULT_SPACE_ID
              /\ FindSpace(spaces', DEFAULT_SPACE_ID) # 0
              /\ t \in Range(spaces'[FindSpace(spaces', DEFAULT_SPACE_ID)].tabIds)]_vars

\* =====================================================================
\* The StateManager's operations on the list of spaces
\* =====================================================================

\* StateManager.setSpaces
setSpaces(w, list) ==
    notifyListeners(scheduleSave([w EXCEPT !.spaces = normalizeSpaces(list)], TRUE))

\* StateManager.updateSpace, renameSpace: name, color, icon and rules are not part
\* of the modelled space; a found space is saved and announced
updateSpace(w, spaceId) ==
    IF FindSpace(w.spaces, spaceId) # 0
    THEN notifyListeners(scheduleSave(w, TRUE))
    ELSE w

\* handleMessage, cases RENAME_SPACE and UPDATE_SPACE
Message_UPDATE_SPACE(spaceId) ==
    /\ Commit(updateSpace(World, spaceId))
    /\ last' = [op |-> "UPDATE_SPACE", spaceId |-> spaceId]
    /\ UNCHANGED uiActiveSpaceId
    /\ MessageFrame

\* a call of setSpaces
StateManager_setSpaces(list) ==
    /\ Commit(setSpaces(World, list))
    /\ last' = [op |-> "setSpaces", spaces |-> list]
    /\ UNCHANGED uiActiveSpaceId
    /\ MessageFrame

\* the lists setSpaces is called with: spaces with distinct ids, with and without
\* the default space
SpaceLists ==
    {list \in UNION {[1..n -> [id : {DEFAULT_SPACE_ID, SpaceName(1)},
                               tabIds : {<<>>, <<1>>}]] : n \in 0..2} :
        \A i, j \in 1..Len(list) : i # j => list[i].id # list[j].id}

NextManager ==
    \/ Tick
    \/ Boot
    \/ Restart
    \/ (phase = "ready" /\ Message_CREATE_SPACE)
    \/ (phase = "ready" /\ \E s \in {DEFAULT_SPACE_ID, SpaceName(1), SpaceName(2)} :
                               Message_DELETE_SPACE(s))
    \/ (phase = "ready" /\ \E s \in {DEFAULT_SPACE_ID, SpaceName(1)} :
                               Message_UPDATE_SPACE(s))
    \/ (phase = "ready" /\ \E t \in TabIds, s \in SpaceInputs :
                               Message_ASSIGN_TAB_TO_SPACE(t, s))
    \/ (phase = "ready" /\ \E list \in SpaceLists : StateManager_setSpaces(list))

SpecManager == Init /\ [][NextManager]_vars

\* C17: the list of spaces holds a space with id 'default' in every reachable
\* state, and removeSpace('default') returns the empty list and leaves the spaces,
\* the metadata, the storage and the store as they were.
C17_DefaultSpaceExists ==
    /\ [](FindSpace(spaces, DEFAULT_SPACE_ID) # 0)
    /\ [][Message_DELETE_SPACE(DEFAULT_SPACE_ID)
            => /\ last'.ret = <<>>
               /\ UNCHANGED <<spaces, tabMetadata, storage, state>>]_vars

\* removeSpace('default') has been refused while the default space had a member
\* and another space existed
C17_DefaultDeletionRefused ==
    /\ last.op = "DELETE_SPACE"
    /\ last.spaceId = DEFAULT_SPACE_ID
    /\ last.ret = <<>>
    /\ last.members # <<>>
    /\ Len(spaces) > 1

\* C18: addSpace returns a space with an empty member list and an id that no
\* space had before the call, and the ids of the spaces are pairwise distinct in
\* every reachable state.
C18_SpaceIdsDistinct ==
    /\ [](\A m, n \in 1..Len(spaces) : m # n => spaces[m].id # spaces[n].id)
    /\ [][Message_CREATE_SPACE
            => /\ addSpace(World).ret.tabIds = <<>>
               /\ FindSpace(spaces, addSpace(World).ret.id) = 0]_vars

\* tab t has no metadata entry and is in no member list
Forgotten(t, meta, sp) ==
    /\ t \notin DOMAIN meta
    /\ \A n \in 1..Len(sp) : t \notin Range(sp[n].tabIds)

\* C19: when the service worker's listeners have handled the removed notification
\* of tab t, t is in no member list and has no metadata entry, and the step that
\* follows leaves it so.
C19_RemovedTabStaysForgotten ==
    /\ [][(Removing /\ WorkerListening)
            => Forgotten(Head(events).tabId, tabMetadata', spaces')]_vars
    /\ [][(last.op = "tabs.onRemoved" /\ WorkerListening
           /\ Forgotten(last.tabId, tabMetadata, spaces))
            => Forgotten(last.tabId, tabMetadata', spaces')]_vars

\* =====================================================================
\* StateManager.initialize over what chrome.storage may hold
\* =====================================================================

MaxPersistedSpaces == 2

\* persisted member lists: any tab ids, with or without metadata
PersistedTabIds == {<<>>, <<1>>, <<2>>, <<1, 2>>, <<2, 1>>}

PersistedSpaces ==
    UNION {[1..n -> [id : {DEFAULT_SPACE_ID, SpaceName(1)}, tabIds : PersistedTabIds]] :
              n \in 0..MaxPersistedSpaces}

\* persisted metadata: entries for some tabs, naming no space, an existing space
\* or a space that may be missing
PersistedMetadata ==
    UNION {[S -> [spaceId : {UndefinedSpace, DEFAULT_SPACE_ID, SpaceName(1), SpaceName(2)},
                  lastActiveAt : {Undefined, 1}]] : S \in SUBSET TabIds}

InitLoad ==
    /\ now = 1
    /\ host = HostInit
    /\ storage \in [spaces : PersistedSpaces, tabMetadata : PersistedMetadata]
    /\ Constructed
    /\ NoPanel
    /\ NoPins
    /\ NoStartup

NextLoad == StorageLoaded

SpecLoad == InitLoad /\ [][NextLoad]_vars

\* the space the persisted metadata of tab t names: 'default' when it names
\* none or one that the loaded list does not hold
NamedSpace(t) ==
    LET named == storage.tabMetadata[t].spaceId
    IN  IF named # UndefinedSpace /\ FindSpace(spaces, named) # 0
        THEN named ELSE DEFAULT_SPACE_ID

\* C20: when StateManager.initialize has completed, the member lists are pairwise
\* disjoint, every tab with a persisted metadata entry is in exactly one member
\* list, that of the space its metadata names (of 'default' when it names no
\* space or a missing one), its metadata names that space, and every member of a
\* list has a metadata entry.
C20_LoadedMembersFollowMetadata ==
    last.op = "StateManager.initialize" =>
        /\ \A m, n \in 1..Len(spaces) : m # n => Members(m) \cap Members(n) = {}
        /\ DOMAIN tabMetadata = DOMAIN storage.tabMetadata
        /\ \A t \in DOMAIN storage.tabMetadata :
              /\ tabMetadata[t].spaceId = NamedSpace(t)
              /\ \E n \in 1..Len(spaces) : t \in Members(n)
              /\ \A n \in 1..Len(spaces) : t \in Members(n) => spaces[n].id = NamedSpace(t)
        /\ \A n \in 1..Len(spaces) : Members(n) \subseteq DOMAIN tabMetadata

\* loaded: tab 1 was persisted as a member of two spaces and its metadata named a
\* missing space; tab 2 was persisted as a member and had no metadata
C20_LoadedOverStaleMembers ==
    /\ last.op = "StateManager.initialize"
    /\ Len(storage.spaces) = 2
    /\ \A n \in 1..2 : storage.spaces[n].tabIds = <<1, 2>>
    /\ DOMAIN storage.tabMetadata = {1}
    /\ storage.tabMetadata[1].spaceId = SpaceName(2)
    /\ tabMetadata[1].spaceId = DEFAULT_SPACE_ID

\* =====================================================================
\* handleMessage: requests, their awaited host call and their responses
\* =====================================================================

MaxRequests == 2

\* the tab id lists a CLOSE_TABS request can carry
CloseLists == {<<1>>, <<2>>, <<1, 2>>}

\* sendResponse({ success: true })
ResponseSuccess == [success |-> TRUE]

\* sendResponse({ error: String(error) }) of the catch block
ResponseError(error) == [error |-> error]

\* sendResponse, called for the request at position i
sendResponse(list, i, response) ==
    [list EXCEPT ![i].awaiting = "done", ![i].responses = Append(@, response)]

\* handleMessage, cases CLOSE_TAB and CLOSE_TABS: what follows the awaited
\* chrome.tabs.remove once it has resolved
RECURSIVE Handle_CLOSE_TABS(_, _)
Handle_CLOSE_TABS(w, tabIds) ==
    IF tabIds = <<>> THEN w
    ELSE Handle_CLOSE_TABS(removeTabMetadata(w, Head(tabIds)), Tail(tabIds))

\* a catch block that runs the rest of the case before it answers
Handle_catch_AfterCleanup(w, request) == Handle_CLOSE_TABS(w, request.tabIds)

\* handleMessage, the catch block: the error is logged and answered, nothing else
Handle_catch(w, request) == w

RequestFrame ==
    UNCHANGED <<now, host, events, getAllResults, uiActiveSpaceId, phase, burst,
                focusQueries, pinRequests, hostPinned, panelVars, startupVars>>

\* handleMessage takes a CLOSE_TAB or CLOSE_TABS request and awaits
\* chrome.tabs.remove; the host accepts the call when every id names an open tab
RequestClose(type, tabIds) ==
    /\ phase = "ready"
    /\ Len(requests) < MaxRequests
    /\ requests' = Append(requests,
                     [type |-> type, tabIds |-> tabIds,
                      accepted |-> Range(tabIds) \subseteq HostOpenTabs(host),
                      awaiting |-> "chrome.tabs.remove", responses |-> <<>>])
    /\ last' = [op |-> type, tabIds |-> tabIds]
    /\ UNCHANGED progVars
    /\ RequestFrame

Message_CLOSE_TAB(tabId) == RequestClose("CLOSE_TAB", <<tabId>>)

Message_CLOSE_TABS(tabIds) == RequestClose("CLOSE_TABS", tabIds)

Awaiting(i) == i \in 1..Len(requests) /\ requests[i].awaiting = "chrome.tabs.remove"

\* chrome.tabs.remove resolves: the host has closed the tabs of the request
RemoveResolved(i) ==
    /\ Awaiting(i)
    /\ requests[i].accepted
    /\ Range(requests[i].tabIds) \cap HostOpenTabs(host) = {}
    /\ Commit(Handle_CLOSE_TABS(World, requests[i].tabIds))
    /\ requests' = sendResponse(requests, i, ResponseSuccess)
    /\ last' = [op |-> "chrome.tabs.remove", request |-> i, rejected |-> FALSE]
    /\ RequestFrame

\* chrome.tabs.remove rejects: an id of the request names no open tab
RemoveRejected(i) ==
    /\ Awaiting(i)
    /\ ~requests[i].accepted
    /\ Commit(Handle_catch(World, requests[i]))
    /\ requests' = sendResponse(requests, i, ResponseError("No tab with id"))
    /\ last' = [op |-> "chrome.tabs.remove", request |-> i, rejected |-> TRUE]
    /\ RequestFrame

NextRequests ==
    \/ Boot
    \/ \E i \in Indexes : Host_OpenTab(1, i, FALSE)
    \/ \E t \in TabIds : Host_CloseTab(t)
    \/ TabCreated
    \/ TabRemoved
    \/ TabActivated
    \/ WindowRemoved
    \/ WindowFocusChanged
    \/ \E t \in TabIds : Message_CLOSE_TAB(t)
    \/ \E list \in CloseLists : Message_CLOSE_TABS(list)
    \/ \E i \in 1..MaxRequests : RemoveResolved(i)
    \/ \E i \in 1..MaxRequests : RemoveRejected(i)

SpecRequests == Init /\ [][NextRequests]_vars

Failure(response) == "error" \in DOMAIN response \/ ~response.success

C22_UnknownTabAssignIsNoOp ==
    [][\A t \in TabIds, s \in SpaceInputs :
          (Message_ASSIGN_TAB_TO_SPACE(t, s) /\ ~MapHas(state.tabs, t))
          => /\ UNCHANGED <<spaces, tabMetadata>>
             /\ \A n \in 1..Len(sent') : sent'[n].type # "TAB_UPDATED"]_vars

\* =====================================================================
\* Messages of a type the receiver has no case for
\* =====================================================================

\* handleMessage: the case labels of its switch
RequestTypes ==
    {"GET_STATE", "GET_TABS", "SUBSCRIBE", "UNSUBSCRIBE", "SWITCH_TAB", "CLOSE_TAB",
     "CLOSE_TABS", "PIN_TAB", "CREATE_TAB", "MOVE_TAB", "RELOAD_TAB", "DUPLICATE_TAB",
     "MUTE_TAB", "ASSIGN_TAB_TO_SPACE", "CREATE_SPACE", "DELETE_SPACE", "RENAME_SPACE",
     "UPDATE_SPACE", "SET_ACTIVE_SPACE"}

\* isBackgroundMessage: bgTypes
bgTypes ==
    {"STATE_SYNC", "TAB_CREATED", "TAB_REMOVED", "TAB_UPDATED", "TAB_MOVED",
     "TAB_ACTIVATED", "WINDOW_CREATED", "WINDOW_REMOVED", "WINDOW_FOCUSED",
     "SPACES_UPDATED", "SIDE_PANEL_CLOSING"}

\* messages that reach the service worker's listener: one of no known type, a
\* broadcast type sent as a request, and a request the switch has a case for
WorkerInbox ==
    {[type |-> "PING"], [type |-> "TAB_REMOVED", tabId |-> 1],
     [type |-> "UNSUBSCRIBE"]}

\* messages that reach the panel's listener besides the tab deltas: one of no
\* known type, a request another extension page sent, and two broadcasts the
\* reconciler has no tab case for
PanelInbox ==
    {[type |-> "PING"], [type |-> "CLOSE_TAB", tabId |-> 1],
     [type |-> "WINDOW_CREATED", windowId |-> 1],
     [type |-> "SIDE_PANEL_CLOSING", windowId |-> 1]}

\* a type guard that lets every message with a type through
isBackgroundMessage_AnyType(message) == "type" \in DOMAIN message

\* isBackgroundMessage
isBackgroundMessage(message) == message.type \in bgTypes

\* handleMessage, the default case and case UNSUBSCRIBE: the answer
Handle_other(message) ==
    IF message.type \in RequestTypes
    THEN ResponseSuccess
    ELSE ResponseError("Unknown message type")

\* handleMessage for a message whose case makes no host call and touches no state
Message_other(message) ==
    /\ phase = "ready"
    /\ Len(requests) < MaxRequests
    /\ requests' = Append(requests,
                     [type |-> message.type, tabIds |-> <<>>, accepted |-> TRUE,
                      awaiting |-> "done", responses |-> <<Handle_other(message)>>])
    /\ last' = [op |-> "handleMessage", message |-> message]
    /\ UNCHANGED progVars
    /\ RequestFrame

\* onMessage: the listener passes a message to the callback when it has a type
\* and isBackgroundMessage accepts it; the callback's switch has no case that
\* changes the tab list or the active tab for the messages of PanelInbox
Panel_onMessage(message) ==
    LET passed == "type" \in DOMAIN message /\ isBackgroundMessage(message)
    IN  /\ tabs' = tabs
        /\ activeTabId' = activeTabId
        /\ received' = IF passed THEN Remember(message) ELSE received
        /\ last' = [op |-> "onMessage", message |-> message, passed |-> passed,
                    before |-> tabs]
        /\ UNCHANGED <<now, host, events, getAllResults, progVars, uiActiveSpaceId,
                       phase, burst, focusQueries, pinVars, isLoading, panelStep,
                       startupVars>>

NextUnknown ==
    \/ Boot
    \/ \E message \in WorkerInbox : Message_other(message)
    \/ \E message \in PanelInbox : Panel_onMessage(message)
    \/ \E list \in PanelTabLists : Len(list) <= 1 /\ Receive_STATE_SYNC(list)
    \/ \E t \in TabIds : Receive_TAB_ACTIVATED(t)

SpecUnknown == Init /\ [][NextUnknown]_vars

\* C23: a request whose type handleMessage has no case for is answered with an
\* error and leaves the Mirror Store, the spaces and the per-tab metadata as they
\* were; a message whose type is not a BackgroundMessage type is not passed to
\* the panel's reconciler and leaves the panel's tab list, active tab and
\* handled messages as they were
C23_UnknownTypesChangeNothing ==
    /\ [][\A message \in WorkerInbox :
            (Message_other(message) /\ message.type \notin RequestTypes)
            => /\ UNCHANGED <<state, spaces, tabMetadata>>
               /\ requests'[Len(requests')].responses =
                      <<ResponseError("Unknown message type")>>]_vars
    /\ [][\A message \in PanelInbox :
            (Panel_onMessage(message) /\ message.type \notin bgTypes)
            => /\ ~last'.passed
               /\ UNCHANGED <<tabs, activeTabId, received>>]_vars

\* the worker has answered a request of unknown type with an error, and the
\* panel, holding tabs, has just dropped a message of unknown type
C23_UnknownRequestAndBroadcast ==
    /\ last.op = "onMessage" /\ last.message.type = "PING" /\ ~last.passed
    /\ tabs # <<>>
    /\ \E i \in 1..Len(requests) :
          /\ requests[i].type = "PING"
          /\ requests[i].responses = <<ResponseError("Unknown message type")>>

\* C24: when a debounce timer fires for a tab id the Mirror Store does not hold,
\* the callback applies nothing: the id is not in the store afterwards,
\* lastUpdated was not written and no TAB_UPDATED delta was sent
C24_FlushForUnknownTabAppliesNothing ==
    (last.op = "debounce" /\ ~last.knownTab) =>
        /\ ~MapHas(state.tabs, last.tabId)
        /\ ~last.accepted
        /\ \A n \in 1..Len(sent) : sent[n].type # "TAB_UPDATED"

C26_AtMostOneFocusedWindow ==
    Cardinality({n \in 1..Len(state.windows) : state.windows[n].focused}) <= 1

\* C27: no two tabs of the Mirror Store with the same windowId have the same index
C27_IndexesDistinctPerWindow ==
    \A m, n \in 1..Len(state.tabs) :
        (/\ state.tabs[m].windowId = state.tabs[n].windowId
         /\ state.tabs[m].index = state.tabs[n].index) => m = n

\* the store has seen every notification of the host, and holds for the host's
\* window at position k the tabs the host has in it
InStep(k) ==
    /\ phase = "ready"
    /\ events = <<>>
    /\ MapHas(state.windows, host.windows[k].id)
    /\ Range(MapGet(state.windows, host.windows[k].id).tabIds) = Range(host.windows[k].tabs)
    /\ Range(host.windows[k].tabs) \subseteq MapKeys(state.tabs)

\* C28: getTabsForWindow returns the tabs of a window in the host's tab order
C28_TabsForWindowInHostOrder ==
    \A k \in 1..Len(host.windows) :
        InStep(k) =>
            LET list == getTabsForWindow(World, host.windows[k].id)
            IN  [i \in 1..Len(list) |-> list[i].id] = host.windows[k].tabs

\* the step handled a host event or fired a timer, and a listener wrote the store
AcceptedMutation ==
    /\ last' # last
    /\ "accepted" \in DOMAIN last'
    /\ last'.accepted

\* C29: lastUpdated never decreases, and a step that writes the store leaves it
\* strictly greater than it was
C29_LastUpdatedStrictlyIncreases ==
    [][/\ state'.lastUpdated >= state.lastUpdated
       /\ AcceptedMutation => state'.lastUpdated > state.lastUpdated]_vars

\* C30: when a debounce timer fires and the change-info it carries (that of the
\* tab's most recent notification) has none of the allow-listed keys, the Mirror
\* Store with its lastUpdated is left as it was, the serialized view is not
\* invalidated for the subscribers and nothing is broadcast
C30_FlushWithoutMeaningfulChangeIsSilent ==
    [][\A q \in timeouts :
          (DebounceFired(q) /\ q.changeInfo \cap meaningfulChanges = {})
          => /\ state' = state
             /\ UNCHANGED <<serializedStateCache, cacheLastUpdated, mutatedSinceRead>>
             /\ sent' = <<>>]_vars

\* the timer of a known tab whose last notification carried only groupId fired
C30_GroupIdOnlyFlushed ==
    /\ last.op = "debounce"
    /\ last.knownTab
    /\ last.burst.changeInfo = {"groupId"}
    /\ ~last.accepted

\* =====================================================================
\* Persistence: immediate writes and the debounced save
\* =====================================================================

\* chrome.storage.local holds the spaces and the metadata the manager has in memory
Durable == storage = [spaces |-> spaces, tabMetadata |-> tabMetadata]

\* The worker is terminated only when idle, long after the 500 ms save timer.
NextPersist ==
    \/ Boot
    \/ (~saveDebounceTimer /\ Restart)
    \/ SaveFired
    \/ Host_OpenTab(1, 1, FALSE)
    \/ \E t \in TabIds : Host_CloseTab(t)
    \/ TabCreated
    \/ TabRemoved
    \/ TabActivated
    \/ WindowRemoved
    \/ WindowFocusChanged
    \/ (phase = "ready" /\ \E t \in TabIds, s \in SpaceInputs :
                               Message_ASSIGN_TAB_TO_SPACE(t, s))
    \/ (phase = "ready" /\ Message_CREATE_SPACE)
    \/ (phase = "ready" /\ \E s \in {DEFAULT_SPACE_ID, SpaceName(1)} :
                               Message_DELETE_SPACE(s))
    \/ (phase = "ready" /\ \E s \in {DEFAULT_SPACE_ID, SpaceName(1)} :
                               Message_UPDATE_SPACE(s))

\* setTimeout: a timer that stays armed fires
SpecPersist == Init /\ [][NextPersist]_vars /\ WF_vars(SaveFired)

MutatingCall ==
    /\ phase # "load" /\ phase' # "load"
    /\ <<spaces, tabMetadata>>' # <<spaces, tabMetadata>>

C32_ActivatedAndUnknownUpdateKeepList ==
    /\ last.op = "TAB_ACTIVATED" =>
          /\ tabs = last.before
          /\ activeTabId = last.message.tabId
    /\ (last.op = "TAB_UPDATED" /\ last.message.tabId \notin PanelIds(last.before)) =>
          tabs = last.before

\* TAB_UPDATED for tab 2 was handled while the local list held tab 1 only
C32_UpdateForAbsentTab ==
    /\ last.op = "TAB_UPDATED"
    /\ last.message.tabId = 2
    /\ PanelIds(last.before) = {1}

\* =====================================================================
\* Events handled while an update's debounce timer is pending
\* =====================================================================

NextFlush ==
    \/ Tick
    \/ Boot
    \/ (phase = "ready" /\ Host_OpenTab(1, 1, FALSE))
    \/ (phase = "ready" /\ \E t \in TabIds : Host_Update(t, {"title"}, 1))
    \/ (phase = "ready" /\ \E t \in TabIds, i \in Indexes : Host_MoveTab(t, i))
    \/ (phase = "ready" /\ \E t \in TabIds : Host_Activate(t))
    \/ TabCreated
    \/ TabUpdated
    \/ TabMoved
    \/ TabActivated
    \/ \E q \in timeouts : DebounceFired(q)
    \/ (phase = "ready" /\ \E t \in TabIds :
                               Message_ASSIGN_TAB_TO_SPACE(t, DEFAULT_SPACE_ID))

SpecFlush == Init /\ [][NextFlush]_vars

\* C33: the flush of a debounced update for a tab the store holds leaves the
\* tab's spaceId and lastActiveAt as they were just before the flush
C33_FlushKeepsSpaceAndLastActive ==
    [][\A q \in timeouts :
          (DebounceFired(q) /\ MapHas(state.tabs, q.tabId))
          => /\ MapHas(state'.tabs, q.tabId)
             /\ MapGet(state'.tabs, q.tabId).spaceId = MapGet(state.tabs, q.tabId).spaceId
             /\ MapGet(state'.tabs, q.tabId).lastActiveAt =
                    MapGet(state.tabs, q.tabId).lastActiveAt]_vars

\* an update of tab 2 was flushed into the store after the tab had been assigned
\* to the default space and activated at clock value 2: the stored tab has both
\* values, which the notification's tab does not carry
C33_FlushedAfterAssignAndActivation ==
    /\ last.op = "debounce" /\ last.accepted /\ last.knownTab
    /\ last.tabId = 2
    /\ MapGet(state.tabs, 2).spaceId = DEFAULT_SPACE_ID
    /\ MapGet(state.tabs, 2).lastActiveAt = 2

\* C34: when the timer of an update fires for a tab the store holds, the tab's
\* index and windowId in the store stay what they were just before the flush
\* (the values a move or attach handled in the meantime has set)
C34_FlushKeepsLaterPosition ==
    [][\A q \in timeouts :
          (DebounceFired(q) /\ MapHas(state.tabs, q.tabId))
          => /\ MapGet(state'.tabs, q.tabId).index = MapGet(state.tabs, q.tabId).index
             /\ MapGet(state'.tabs, q.tabId).windowId =
                    MapGet(state.tabs, q.tabId).windowId]_vars

\* =====================================================================
\* One observer fed by the service worker's broadcasts
\* =====================================================================

\* handleMessage, case SUBSCRIBE: the serialized state is broadcast as STATE_SYNC
Handle_SUBSCRIBE(w) ==
    LET w1 == getSerializedState(w)
    IN  broadcastMessage(w1, [type |-> "STATE_SYNC",
                              state |-> w1.serializedStateCache[1],
                              spaces |-> w1.spaces])

\* the panel's SUBSCRIBE request, sent once its active-tab query has resolved,
\* is handled by the service worker
Message_SUBSCRIBE ==
    /\ panelStep = "query"
    /\ panelStep' = "subscribe"
    /\ Commit(Handle_SUBSCRIBE(World))
    /\ last' = [op |-> "SUBSCRIBE"]
    /\ UNCHANGED <<now, host, events, getAllResults, uiActiveSpaceId, phase, burst,
                   focusQueries, pinVars, tabs, activeTabId, received, isLoading,
                   startupVars>>

\* the onMessage callback of the panel, applied to one broadcast
ApplyBroadcast(panel, message) ==
    IF ~isBackgroundMessage(message) THEN panel
    ELSE CASE message.type = "STATE_SYNC" ->
                [panel EXCEPT !.tabs = Reconcile_STATE_SYNC(@, message.state.tabs)]
           [] message.type = "TAB_CREATED" ->
                [panel EXCEPT !.tabs = Reconcile_TAB_CREATED(@, message.tab)]
           [] message.type = "TAB_REMOVED" ->
                [panel EXCEPT !.tabs = Reconcile_TAB_REMOVED(@, message.tabId)]
           [] message.type = "TAB_UPDATED" ->
                [panel EXCEPT !.tabs = Reconcile_TAB_UPDATED(@, message.tab)]
           [] message.type = "TAB_MOVED" ->
                [panel EXCEPT !.tabs =
                    Reconcile_TAB_MOVED(@, message.tabId, message.toIndex)]
           [] message.type = "TAB_ACTIVATED" ->
                [panel EXCEPT !.activeTabId = message.tabId]
           [] OTHER -> panel

RECURSIVE ApplyBroadcasts(_, _)
ApplyBroadcasts(panel, messages) ==
    IF messages = <<>> THEN panel
    ELSE ApplyBroadcasts(ApplyBroadcast(panel, Head(messages)), Tail(messages))

\* the broadcasts of the last step have reached the panel
Delivered == sent = <<>> \/ last.op = "deliver"

\* the panel's listener handles the broadcasts of the last step, in the order
\* they were sent
Deliver ==
    /\ ~Delivered
    /\ LET panel == ApplyBroadcasts([tabs |-> tabs, activeTabId |-> activeTabId], sent)
       IN  tabs' = panel.tabs /\ activeTabId' = panel.activeTabId
    /\ last' = [op |-> "deliver", messages |-> sent, before |-> tabs]
    /\ UNCHANGED <<now, host, events, getAllResults, progVars, uiActiveSpaceId, phase,
                   burst, focusQueries, pinVars, received, isLoading, panelStep,
                   startupVars>>

NextMirror ==
    \/ (Delivered /\ Boot)
    \/ (Delivered /\ \E i \in Indexes : Host_OpenTab(1, i, FALSE))
    \/ (Delivered /\ \E t \in TabIds : Host_CloseTab(t))
    \/ (Delivered /\ \E t \in TabIds : Host_Update(t, {"title"}, 1))
    \/ (Delivered /\ \E t \in TabIds, i \in Indexes : Host_MoveTab(t, i))
    \/ (Delivered /\ Host_OpenWindow(FALSE))
    \/ (Delivered /\ \E t \in TabIds, win \in WinIds : Host_MoveToWindow(t, win, 0))
    \/ (Delivered /\ TabCreated)
    \/ (Delivered /\ TabRemoved)
    \/ (Delivered /\ TabUpdated)
    \/ (Delivered /\ TabMoved)
    \/ (Delivered /\ TabActivated)
    \/ (Delivered /\ TabAttached)
    \/ (Delivered /\ TabDetached)
    \/ (Delivered /\ WindowCreated)
    \/ (Delivered /\ WindowRemoved)
    \/ (Delivered /\ WindowFocusChanged)
    \/ (Delivered /\ \E q \in timeouts : DebounceFired(q))
    \/ (Delivered /\ phase = "ready" /\ Message_SUBSCRIBE)
    \/ Deliver

SpecMirror == Init /\ [][NextMirror]_vars

\* C35: once the panel has been sent its snapshot, after it has handled the
\* broadcasts of a step its tab ids are the tab ids of the Mirror Store
C35_PanelIdsFollowStore ==
    (panelStep = "subscribe" /\ last.op = "deliver") =>
        PanelIds(tabs) = MapKeys(state.tabs)

\* =====================================================================
\* The active tab and the window lists of the Mirror Store
\* =====================================================================

\* C36: activeTabId is null or the id of a tab in the store
C36_ActiveTabInStore ==
    state.activeTabId = NULL \/ state.activeTabId \in MapKeys(state.tabs)

\* the windows of the store whose tabIds list holds the id, counted with
\* multiplicity
Listings(id) ==
    {<<k, i>> \in (1..Len(state.windows)) \X (1..MaxTab + 1) :
        i <= Len(state.windows[k].tabIds) /\ state.windows[k].tabIds[i] = id}

\* the tab has been detached and its attach has not been handled yet
BetweenDetachAndAttach(id) ==
    \E i \in 1..Len(events) :
        events[i].kind = "tabs.onAttached" /\ events[i].tabId = id

\* C37: every tab of the store is listed exactly once, in the tabIds of the
\* window its windowId names (except between its detach and its attach), and
\* every listed id is the id of a tab in the store
C37_TabsListedOnceInTheirWindow ==
    /\ \A i \in 1..Len(state.tabs) :
          LET tab == state.tabs[i]
          IN  BetweenDetachAndAttach(tab.id) \/
              (/\ Cardinality(Listings(tab.id)) = 1
               /\ \A p \in Listings(tab.id) : state.windows[p[1]].id = tab.windowId)
    /\ \A k \in 1..Len(state.windows) :
          Range(state.windows[k].tabIds) \subseteq MapKeys(state.tabs)

\* =====================================================================
\* PIN_TAB requests handled concurrently
\* =====================================================================

\* PIN_TAB requests in flight at the same time
MaxConcurrentPins == 2

\* every tab is pinned or unpinned by PIN_TAB requests only
NextPinRace ==
    \/ \E id \in 1..MaxConcurrentPins, t \in PinTabIds, pinned \in BOOLEAN :
           Cardinality(pinRequests) < MaxConcurrentPins /\ Message_PIN_TAB(id, t, pinned)
    \/ \E r \in pinRequests : PinQueryResolved(r)
    \/ \E r \in pinRequests : PinUpdateResolved(r)

SpecPinRace == InitPin /\ [][NextPinRace]_vars

\* C39: the tabs pinned by PIN_TAB requests never number more than 6
C39_AtMostSixPinned == Cardinality(hostPinned) <= PinLimit

\* =====================================================================
\* SUBSCRIBE handled while the service worker is still initializing
\* =====================================================================

\* the runtime.onMessage listener is registered when the script is loaded, so a
\* SUBSCRIBE request is handled in every phase of initialize()
NextSubscribe ==
    \/ (Delivered /\ Boot)
    \/ (Delivered /\ \E i \in Indexes : Host_OpenTab(1, i, FALSE))
    \/ (Delivered /\ \E t \in TabIds : Host_CloseTab(t))
    \/ (Delivered /\ TabCreated)
    \/ (Delivered /\ TabRemoved)
    \/ (Delivered /\ TabActivated)
    \/ (Delivered /\ WindowRemoved)
    \/ (Delivered /\ Message_SUBSCRIBE)
    \/ Deliver

SpecSubscribe == Init /\ [][NextSubscribe]_vars

\* the observer holds an empty list although the host has open tabs, the
\* service worker is initialized and nothing is left to handle
LeftEmpty ==
    /\ panelStep = "subscribe" /\ phase = "ready"
    /\ Delivered /\ events = <<>> /\ timeouts = {}
    /\ tabs = <<>> /\ HostOpenTabs(host) # {}

\* C38: the STATE_SYNC snapshot sent for a SUBSCRIBE request holds every tab open
\* in the host at that time, and the observer is never left with an empty list
\* while the host has open tabs
C38_SnapshotHoldsOpenTabs ==
    /\ last.op = "SUBSCRIBE" =>
          /\ Len(sent) = 1
          /\ sent[1].type = "STATE_SYNC"
          /\ HostOpenTabs(host) \subseteq MapKeys(sent[1].state.tabs)
    /\ ~LeftEmpty

\* =====================================================================
\* Workspace requests handled while StateManager.initialize awaits the load
\* =====================================================================

\* StateManager.initialize, from the point where loadPersistedState has resolved
\* with the values its chrome.storage.local.get calls returned
StateManager_initializeFrom(w, persisted) ==
    LET normalized == normalizeSpaces(persisted.spaces)
        w1 == IF normalized # persisted.spaces
              THEN [w EXCEPT !.storage.spaces = normalized]
              ELSE w
    IN  rebuildSpaceTabIds([w1 EXCEPT !.spaces = normalized,
                                      !.tabMetadata = persisted.tabMetadata])

\* loadPersistedState: migrateStorageIfNeeded has resolved and the reads of the
\* stored spaces and metadata are issued; they return what is stored now
LoadRequested ==
    /\ phase = "load"
    /\ loadResults = <<>>
    /\ loadResults' = <<storage>>
    /\ last' = [op |-> "loadPersistedState"]
    /\ UNCHANGED <<now, host, events, getAllResults, progVars, uiActiveSpaceId, phase,
                   burst, focusQueries, pinVars, panelVars, startupPhase,
                   startupListeners>>

\* the reads resolve and StateManager.initialize resumes
LoadResolved ==
    /\ phase = "load"
    /\ loadResults # <<>>
    /\ Commit(StateManager_initializeFrom(World, Head(loadResults)))
    /\ loadResults' = <<>>
    /\ phase' = "sync"
    /\ getAllResults' = <<HostGetAll(host)>>
    /\ last' = [op |-> "StateManager.initialize"]
    /\ UNCHANGED <<now, host, events, uiActiveSpaceId, burst, focusQueries, pinVars,
                   panelVars, startupPhase, startupListeners>>

\* the runtime.onMessage listener is registered when the script is loaded, so
\* the workspace requests are handled in every phase of initialize()
NextInitRace ==
    \/ Tick
    \/ LoadRequested
    \/ LoadResolved
    \/ EngineSynced
    \/ Seeded(HostActiveTab(host, host.focused))
    \/ SaveFired
    \/ Host_OpenTab(1, 1, FALSE)
    \/ TabCreated
    \/ Message_CREATE_SPACE
    \/ \E t \in TabIds, s \in {DEFAULT_SPACE_ID, SpaceName(1)} :
           Message_ASSIGN_TAB_TO_SPACE(t, s)

SpecInitRace == Init /\ [][NextInitRace]_vars

\* C40: when the load resolves, every space of the in-memory list and every
\* tab's space assignment made by a request accepted during the load is kept
C40_LoadKeepsAcceptedMutations ==
    [][LoadResolved =>
          /\ \A i \in 1..Len(spaces) : FindSpace(spaces', spaces[i].id) # 0
          /\ \A t \in DOMAIN tabMetadata :
                /\ t \in DOMAIN tabMetadata'
                /\ tabMetadata'[t].spaceId = tabMetadata[t].spaceId]_vars

====
